---- MODULE Spec2Model ----
(***************************************************************************)
(* Anvil: a pixel buffer, a tile index of dirty flags and a controller of  *)
(* pending diffs, wired together by the Anvil facade.  The operators below *)
(* are translated from the TypeScript sources; every operation of the      *)
(* facade is a pure operator on a record of its three owners               *)
(*   a = [buffer, tiles, diffs, err]                                       *)
(* (err: the call threw), and the actions apply these operators.           *)
(*                                                                         *)
(* A raw RGBA8 byte array is modelled pixel by pixel: a sequence of RGBA   *)
(* tuples in row-major order, four bytes each.                             *)
(*                                                                         *)
(* Thirteen specifications share the operators and the variables:          *)
(*   Spec       a caller that draws (setPixel, fillRect), flushes and      *)
(*              clears the dirty flags;                                    *)
(*   SpecPatch  a caller that records diffs, flushes them into a patch and *)
(*              applies the patch object as undo, then as redo;            *)
(*   SpecDiffs  a caller of the DiffsController alone;                     *)
(*   SpecSnap   a caller of the DiffsController that keeps a flushed patch *)
(*              while it goes on adding diffs;                             *)
(*   SpecTiles  a caller of the tile index alone;                          *)
(*   SpecResize a caller that flood fills and resizes the layer;           *)
(*   SpecEdge   a caller that passes coordinates and rectangles at and     *)
(*              past the edges of the buffer;                              *)
(*   SpecMark   a caller that records partial and whole diffs and marks    *)
(*              tiles itself;                                              *)
(*   SpecLapse  layers, each a Buffer with a Lapse, written and undone     *)
(*              through one AnvilAPI per layer;                            *)
(*   SpecPure   a caller of the functions of their arguments: tile bounds, *)
(*              packing and unpacking a colour;                            *)
(*   SpecBatch  a caller of the batching facade (beginBatch, endBatch);    *)
(*   SpecFail   a caller whose applyPatch and replaceBuffer calls throw;   *)
(*   SpecUnset  a Lapse constructed without a buffer.                      *)
(***************************************************************************)
EXTENDS Integers, Sequences, FiniteSets, TLC

\* ------------------------------------------------------------------ bounds
\* Size of the buffer the facade is constructed with, and its tile size.
BufW == 3
BufH == 1
TileSz == 2
\* Longest list of pending pixel diffs the model lets a caller accumulate.
MaxPixels == 2
\* The same for the caller that flood fills and resizes.
MaxRzPixels == 1
\* Layers of the layered engine, the size of a layer's buffer, and the patches
\* the layers' histories hold together.
NumLayers == 2
LayerW == 2
LayerH == 1
MaxStack == 2
\* Size of the buffer of the batching facade, and the deepest nesting of batches.
BatchW == 4
BatchH == 1
MaxBatchDepth == 2

BytesPerPixel == 4
WordBits == 32
\* The largest value of a colour channel (0xff).
U8Max == 255

TRANSPARENT == <<0, 0, 0, 0>>
ORANGE == <<255, 128, 64, 200>>
\* The colours callers draw with (ORANGE has alpha >= 128).
Colors == {TRANSPARENT, ORANGE}

\* undefined / null.  Some(v) wraps a value that may itself be an empty array.
None == << >>
Some(v) == <<v>>

Min(a, b) == IF a < b THEN a ELSE b
Max(a, b) == IF a > b THEN a ELSE b
\* Math.ceil(n / d) for n >= 0, d > 0
CeilDiv(n, d) == (n + d - 1) \div d
\* Math.floor(n / d) for d > 0 (\div rounds down in TLA+)
FloorDiv(n, d) == n \div d

\* ------------------------------------------------------------------ packing
\* (a << 24) | (r << 16) | (g << 8) | b, a signed 32-bit result in JavaScript
rgbaToPackedU32(rgba) ==
  LET hi == IF rgba[4] >= 128 THEN rgba[4] - 256 ELSE rgba[4]
  IN hi * 16777216 + rgba[1] * 65536 + rgba[2] * 256 + rgba[3]

\* packedU32ToRgba that takes alpha by the sign-propagating shift, unmasked.
packedU32ToRgba_SignedAlpha(packed) ==
  << (packed \div 65536) % 256,
     (packed \div 256) % 256,
     packed % 256,
     packed \div 16777216 >>

\* [(p >> 16) & 0xff, (p >> 8) & 0xff, p & 0xff, (p >>> 24) & 0xff]
packedU32ToRgba(packed) ==
  << (packed \div 65536) % 256,
     (packed \div 256) % 256,
     packed % 256,
     (packed \div 16777216) % 256 >>

tileIndexToLinear(index, cols) == index.row * cols + index.col

\* The codec is an opaque container that round-trips with the same w, h.
rawToWebp(raw, w, h) == [webp |-> raw, w |-> w, h |-> h]
webpToRaw(enc, w, h) == enc.webp

\* packPixels that keeps, for every coordinate, only the entry added last.
packPixels_Coalesced(pixels) ==
  LET keep == {i \in 1..Len(pixels) :
                 \A j \in (i + 1)..Len(pixels) : pixels[j].x # pixels[i].x \/ pixels[j].y # pixels[i].y}
      nth(k) == CHOOSE i \in keep : Cardinality({j \in keep : j < i}) = k - 1
  IN [k \in 1..Cardinality(keep) |->
        [x |-> pixels[nth(k)].x, y |-> pixels[nth(k)].y, color |-> rgbaToPackedU32(pixels[nth(k)].color)]]

packPixels(pixels) ==
  [i \in 1..Len(pixels) |->
     [x |-> pixels[i].x, y |-> pixels[i].y, color |-> rgbaToPackedU32(pixels[i].color)]]

packWhole(diff) ==
  [swapBufferWebp |-> rawToWebp(diff.swapBuffer, diff.width, diff.height),
   width |-> diff.width, height |-> diff.height]

packPartial(diff) ==
  [boundBox |-> diff.boundBox,
   swapBufferWebp |-> rawToWebp(diff.swapBuffer, diff.boundBox.width, diff.boundBox.height)]

\* Object.values(diffs) of a Map has no own enumerable properties: the result
\* is the empty array whatever the map holds.
packTiles(tileFills) == << >>

packPending(pendingDiffs) ==
  [whole |-> pendingDiffs.whole,
   partial |-> pendingDiffs.partial,
   tiles |-> IF DOMAIN pendingDiffs.tileFills # {} THEN Some(packTiles(pendingDiffs.tileFills)) ELSE None,
   pixels |-> IF Len(pendingDiffs.pixels) > 0 THEN packPixels(pendingDiffs.pixels) ELSE None]

\* ------------------------------------------------------------------ PixelBuffer
\* data is the row-major pixel array: pixel (x, y) is data[y * width + x + 1].
NewBuffer(w, h) == [width |-> w, height |-> h, data |-> [i \in 1..(w * h) |-> TRANSPARENT]]

isInBounds(b, x, y) == x >= 0 /\ x < b.width /\ y >= 0 /\ y < b.height

BufGet(b, x, y) ==
  IF ~isInBounds(b, x, y) THEN TRANSPARENT ELSE b.data[y * b.width + x + 1]

BufSet(b, x, y, color) ==
  IF ~isInBounds(b, x, y) THEN b ELSE [b EXCEPT !.data[y * b.width + x + 1] = color]

\* The 4-neighbours of pixel p that lie inside the buffer.
Neighbours(b, p) ==
  {q \in {<<p[1] - 1, p[2]>>, <<p[1] + 1, p[2]>>, <<p[1], p[2] - 1>>, <<p[1], p[2] + 1>>} :
     isInBounds(b, q[1], q[2])}

\* The 4-connected region of pixels of colour target that contains region.
RECURSIVE FloodRegion(_, _, _)
FloodRegion(b, target, region) ==
  LET grown == region \cup {q \in UNION {Neighbours(b, p) : p \in region} :
                                BufGet(b, q[1], q[2]) = target}
  IN IF grown = region THEN region ELSE FloodRegion(b, target, grown)

\* RgbaBuffer.floodFill with threshold 0: [b |-> the buffer after the call,
\* ok |-> whether any pixel changed]
wasmFloodFill(b, startX, startY, color) ==
  IF ~isInBounds(b, startX, startY) THEN [b |-> b, ok |-> FALSE]
  ELSE LET target == BufGet(b, startX, startY) IN
       IF target = color THEN [b |-> b, ok |-> FALSE]
       ELSE LET region == FloodRegion(b, target, {<<startX, startY>>}) IN
            [b |-> [b EXCEPT !.data = [i \in 1..Len(@) |->
                      IF <<(i - 1) % b.width, (i - 1) \div b.width>> \in region
                      THEN color ELSE @[i]]],
             ok |-> TRUE]

\* PixelBuffer.floodFill without threshold and mask options
floodFill(b, startX, startY, color) == wasmFloodFill(b, startX, startY, color)

\* RgbaBuffer.resize_instant: a new zeroed buffer that receives the part of the
\* old one from (srcX, srcY) on, placed at (destX, destY).
resize_instant(b, newW, newH, srcX, srcY, destX, destY) ==
  [width |-> newW, height |-> newH,
   data |-> [i \in 1..(newW * newH) |->
     LET x == (i - 1) % newW
         y == (i - 1) \div newW
         ox == x - destX + srcX
         oy == y - destY + srcY
     IN IF x >= destX /\ y >= destY /\ ox >= srcX /\ oy >= srcY /\ isInBounds(b, ox, oy)
        THEN BufGet(b, ox, oy) ELSE TRANSPARENT]]

\* PixelBuffer.resize(newSize, {srcOrigin, destOrigin})
resizeBuffer(b, newSize, srcOrigin, destOrigin) ==
  resize_instant(b, newSize.width, newSize.height, srcOrigin.x, srcOrigin.y, destOrigin.x, destOrigin.y)

\* ------------------------------------------------------------------ tile index
\* A Uint32Array bitset is the set of its set bit positions
\* (position = wordIndex * 32 + bitIndex).
NewTiles(w, h) ==
  [rows |-> CeilDiv(h, TileSz), cols |-> CeilDiv(w, TileSz),
   totalTiles |-> CeilDiv(h, TileSz) * CeilDiv(w, TileSz),
   dirtyFlags |-> {}, uniformFlags |-> {}, uniformColors |-> << >>]

flagArraySize(t) == CeilDiv(t.totalTiles, WordBits)

BitPos(t, index) ==
  LET linear == tileIndexToLinear(index, t.cols)
  IN (linear \div WordBits) * WordBits + (linear % WordBits)

pixelToTileIndex(x, y) == [row |-> FloorDiv(y, TileSz), col |-> FloorDiv(x, TileSz)]

getTileBounds(index) ==
  [x |-> index.col * TileSz, y |-> index.row * TileSz, width |-> TileSz, height |-> TileSz]

\* TilesController.getTileBounds that answers as the older controller does.
TilesController_getTileBounds_Unclipped(b, index) == getTileBounds(index)

\* TilesController.getTileBounds, of the controller that holds the buffer b:
\* the tile's rectangle clipped to the buffer.  The older
\* LayerTilesController.getTileBounds above does not clip.
TilesController_getTileBounds(b, index) ==
  LET x == index.col * TileSz
      y == index.row * TileSz
      width == Min(TileSz, b.width - x)
      height == Min(TileSz, b.height - y)
  IN [x |-> x, y |-> y, width |-> Max(0, width), height |-> Max(0, height)]

isValidTileIndex(t, index) ==
  index.row >= 0 /\ index.row < t.rows /\ index.col >= 0 /\ index.col < t.cols

isDirty(t, index) == isValidTileIndex(t, index) /\ BitPos(t, index) \in t.dirtyFlags

setDirty(t, index, dirty) ==
  IF ~isValidTileIndex(t, index) THEN t
  ELSE IF dirty THEN [t EXCEPT !.dirtyFlags = @ \cup {BitPos(t, index)}]
  ELSE [t EXCEPT !.dirtyFlags = @ \ {BitPos(t, index)}]

isUniform(t, index) == isValidTileIndex(t, index) /\ BitPos(t, index) \in t.uniformFlags

\* color = None stands for the omitted argument
setUniform(t, index, uniform, color) ==
  LET linear == tileIndexToLinear(index, t.cols) IN
  IF ~isValidTileIndex(t, index) THEN t
  ELSE IF uniform /\ color # None
  THEN [t EXCEPT !.uniformFlags = @ \cup {BitPos(t, index)},
                 !.uniformColors = [k \in DOMAIN @ \cup {linear} |->
                                      IF k = linear THEN rgbaToPackedU32(color) ELSE @[k]]]
  ELSE [t EXCEPT !.uniformFlags = @ \ {BitPos(t, index)},
                 !.uniformColors = [k \in DOMAIN @ \ {linear} |-> @[k]]]

getUniformColor(t, index) ==
  LET linear == tileIndexToLinear(index, t.cols) IN
  IF ~isUniform(t, index) THEN None
  ELSE IF linear \in DOMAIN t.uniformColors THEN packedU32ToRgba(t.uniformColors[linear])
  ELSE None

\* markDirtyByPixel that takes the tile of (y, x).
markDirtyByPixel_Swapped(t, x, y) ==
  LET tileIndex == [row |-> FloorDiv(x, TileSz), col |-> FloorDiv(y, TileSz)]
      t1 == setDirty(t, tileIndex, TRUE)
  IN IF isUniform(t1, tileIndex) THEN setUniform(t1, tileIndex, FALSE, None) ELSE t1

markDirtyByPixel(t, x, y) ==
  LET tileIndex == pixelToTileIndex(x, y)
      t1 == setDirty(t, tileIndex, TRUE)
  IN IF isUniform(t1, tileIndex) THEN setUniform(t1, tileIndex, FALSE, None) ELSE t1

clearAllDirty(t) == [t EXCEPT !.dirtyFlags = {}]

\* setAllDirty without the mask on the last word.
setAllDirty_NoMask(t) ==
  [t EXCEPT !.dirtyFlags = 0..(flagArraySize(t) * WordBits - 1)]

setAllDirty(t) ==
  LET words == flagArraySize(t)
      excessBits == t.totalTiles % WordBits
      all == 0..(words * WordBits - 1)
  IN [t EXCEPT !.dirtyFlags =
        IF excessBits > 0
        THEN {p \in all : ~(p \div WordBits = words - 1 /\ p % WordBits >= excessBits)}
        ELSE all]

\* Pixels of the buffer that lie in the (unclamped) bounds of a tile.
TilePixels(b, index) ==
  LET bounds == getTileBounds(index) IN
  {p \in (bounds.x..(bounds.x + bounds.width - 1)) \X (bounds.y..(bounds.y + bounds.height - 1)) :
     isInBounds(b, p[1], p[2])}

\* fillTile: writes the colour to every in-bounds pixel of the tile, flags the
\* tile uniform and dirty.  Returns the pair of buffer and tiles.
fillTile(b, t, index, color) ==
  IF ~isValidTileIndex(t, index) THEN [buffer |-> b, tiles |-> t]
  ELSE [buffer |-> [b EXCEPT !.data = [i \in DOMAIN @ |->
                      IF <<(i - 1) % b.width, (i - 1) \div b.width>> \in TilePixels(b, index)
                      THEN color ELSE @[i]]],
        tiles |-> setDirty(setUniform(t, index, TRUE, color), index, TRUE)]

\* detectTileUniformity: flags the tile uniform when all of its in-bounds pixels
\* have one colour; otherwise leaves the flags as they are.
detectTileUniformity(b, t, index) ==
  LET seen == {BufGet(b, p[1], p[2]) : p \in TilePixels(b, index)} IN
  IF ~isValidTileIndex(t, index) THEN t
  ELSE IF Cardinality(seen) = 1 THEN setUniform(t, index, TRUE, CHOOSE c \in seen : TRUE)
  ELSE t

\* ------------------------------------------------------------------ DiffsController
\* Each operation returns [d |-> the pending diffs after the call, err |-> it threw].
NoDiffs == [pixels |-> << >>, tileFills |-> << >>, partial |-> None, whole |-> None]

tileKey(tile) == <<tile.row, tile.col>>

\* addPixel that puts the entry first instead of last.
addPixel_Front(d, unpacked) == [d EXCEPT !.pixels = <<unpacked>> \o @]

addPixel(d, unpacked) == [d EXCEPT !.pixels = Append(@, unpacked)]

addTileFill(d, unpacked) ==
  LET key == tileKey(unpacked.tileIndex) IN
  [d EXCEPT !.tileFills = [k \in DOMAIN @ \cup {key} |-> IF k = key THEN unpacked ELSE @[k]]]

\* addPartial without the length check.
addPartial_NoCheck(d, unpacked) ==
  [d |-> [d EXCEPT !.partial = packPartial(unpacked), !.pixels = << >>, !.tileFills = << >>],
   err |-> FALSE]

\* addPartial that leaves the pixel list alone.
addPartial_KeepsPixels(d, unpacked) ==
  LET expected == unpacked.boundBox.width * unpacked.boundBox.height * BytesPerPixel IN
  IF Len(unpacked.swapBuffer) * BytesPerPixel # expected
  THEN [d |-> d, err |-> TRUE]
  ELSE [d |-> [d EXCEPT !.partial = packPartial(unpacked)], err |-> FALSE]

addPartial(d, unpacked) ==
  LET expected == unpacked.boundBox.width * unpacked.boundBox.height * BytesPerPixel IN
  IF Len(unpacked.swapBuffer) * BytesPerPixel # expected
  THEN [d |-> d, err |-> TRUE]
  ELSE [d |-> [d EXCEPT !.partial = packPartial(unpacked), !.pixels = << >>, !.tileFills = << >>],
        err |-> FALSE]

\* addWhole that leaves a pending partial alone.
addWhole_KeepsPartial(d, unpacked) ==
  [d EXCEPT !.whole = packWhole(unpacked), !.pixels = << >>, !.tileFills = << >>]

addWhole(d, unpacked) ==
  [d EXCEPT !.whole = packWhole(unpacked), !.partial = None, !.pixels = << >>, !.tileFills = << >>]

addWholePacked(d, packed) ==
  [d EXCEPT !.whole = packed, !.partial = None, !.pixels = << >>, !.tileFills = << >>]

hasPendingChanges(d) ==
  Len(d.pixels) > 0 \/ DOMAIN d.tileFills # {} \/ d.partial # None \/ d.whole # None

discard(d) == NoDiffs

\* flush that returns the patch and keeps everything pending.
flush_KeepsPending(d) ==
  IF Len(d.pixels) > 0 \/ DOMAIN d.tileFills # {} \/ d.partial # None \/ d.whole # None
  THEN [d |-> d, ret |-> packPending(d)]
  ELSE [d |-> d, ret |-> None]

\* flush: [d |-> pending diffs after the call, ret |-> the patch or None]
flush(d) ==
  IF ~hasPendingChanges(d) THEN [d |-> d, ret |-> None]
  ELSE [d |-> discard(d), ret |-> packPending(d)]

\* previewPatch that leaves the pixel entries out.
previewPatch_NoPixels(d) ==
  IF Len(d.pixels) > 0 \/ DOMAIN d.tileFills # {} \/ d.partial # None \/ d.whole # None
  THEN [packPending(d) EXCEPT !.pixels = None]
  ELSE None

previewPatch(d) == IF ~hasPendingChanges(d) THEN None ELSE packPending(d)

\* Which objects a returned patch shares with the controller. packPending puts
\* the pending whole and partial objects themselves into the patch; the pixel
\* entries are a new array of new objects (Array.map in packPixels).
packPendingShares(pendingDiffs) ==
  (IF pendingDiffs.whole # None THEN {"whole"} ELSE {})
    \cup (IF pendingDiffs.partial # None THEN {"partial"} ELSE {})

\* The pending fields that a call points at a new object, leaving the old
\* object as it is: discard and add_whole assign all three, add_partial two.
discardReplaces == {"pixels", "partial", "whole"}
addWholeReplaces == {"whole", "partial", "pixels"}
addPartialReplaces == {"partial", "pixels"}

\* A flush whose patch stays wired to the controller's pending objects.
flushShares_Live(d) == {"pixels", "partial", "whole"}

\* The fields of the patch flush returns that are still the controller's
\* pending objects when flush returns.
flushShares(d) ==
  IF ~hasPendingChanges(d) THEN {} ELSE packPendingShares(d) \ discardReplaces

\* addPixel pushes onto the pending array in place: a patch p whose pixels
\* field is that array (sh has "pixels") shows the new entry as well.
pushSeenBy(p, sh, unpacked) ==
  IF "pixels" \in sh THEN [p EXCEPT !.pixels = Append(@, unpacked)] ELSE p

\* resize of the tile grid: the bitsets are reallocated before the loop that
\* copies the overlapping flags reads them (getTileInfo reads this.dirtyFlags),
\* so the loop reads the new, zeroed bitsets.
resizeTiles(t, newWidth, newHeight) ==
  LET t0 == [t EXCEPT !.cols = CeilDiv(newWidth, TileSz), !.rows = CeilDiv(newHeight, TileSz),
                      !.totalTiles = CeilDiv(newWidth, TileSz) * CeilDiv(newHeight, TileSz),
                      !.dirtyFlags = {}, !.uniformFlags = {}]
      minRows == Min(t.rows, t0.rows)
      minCols == Min(t.cols, t0.cols)
      overlap == {[row |-> r, col |-> c] : r \in 0..(minRows - 1), c \in 0..(minCols - 1)}
  IN [t0 EXCEPT !.dirtyFlags = @ \cup {BitPos(t0, ix) : ix \in {i \in overlap : isDirty(t0, i)}},
                !.uniformFlags = @ \cup {BitPos(t0, ix) : ix \in
                                     {i \in overlap : isUniform(t0, i) /\ getUniformColor(t0, i) # None}}]

\* ------------------------------------------------------------------ Anvil facade
\* a = [buffer, tiles, diffs, err]; an operation applied to a record whose err
\* is set does nothing (the exception has already left the caller's loop).
\* Row-major sequence of the coordinates x0 <= x < x1, y0 <= y < y1.
RectCoords(x0, x1, y0, y1) ==
  IF x1 <= x0 \/ y1 <= y0 THEN << >>
  ELSE [i \in 1..((x1 - x0) * (y1 - y0)) |->
          <<x0 + ((i - 1) % (x1 - x0)), y0 + ((i - 1) \div (x1 - x0))>>]

\* setPixel without the bounds check.
SetPixel_Unchecked(a, x, y, color) ==
  LET oldColor == BufGet(a.buffer, x, y)
      b1 == BufSet(a.buffer, x, y, color)
      t1 == markDirtyByPixel(a.tiles, x, y)
      d1 == addPixel(a.diffs, [x |-> x, y |-> y, color |-> oldColor])
  IN [a EXCEPT !.buffer = b1, !.diffs = d1,
               !.tiles = detectTileUniformity(b1, t1, pixelToTileIndex(x, y))]

\* setPixel that marks every tile dirty instead of the written one.
SetPixel_MarksAll(a, x, y, color) ==
  IF a.err THEN a
  ELSE IF ~isInBounds(a.buffer, x, y) THEN [a EXCEPT !.err = TRUE]
  ELSE LET oldColor == BufGet(a.buffer, x, y)
           b1 == BufSet(a.buffer, x, y, color)
           d1 == addPixel(a.diffs, [x |-> x, y |-> y, color |-> oldColor])
       IN [a EXCEPT !.buffer = b1, !.diffs = d1, !.tiles = setAllDirty(@)]

SetPixel(a, x, y, color) ==
  IF a.err THEN a
  ELSE IF ~isInBounds(a.buffer, x, y) THEN [a EXCEPT !.err = TRUE]
  ELSE LET oldColor == BufGet(a.buffer, x, y)
           b1 == BufSet(a.buffer, x, y, color)
           t1 == markDirtyByPixel(a.tiles, x, y)
           d1 == addPixel(a.diffs, [x |-> x, y |-> y, color |-> oldColor])
       IN [a EXCEPT !.buffer = b1, !.diffs = d1,
                    !.tiles = detectTileUniformity(b1, t1, pixelToTileIndex(x, y))]

\* getPixel: [a |-> the facade after the call, ret |-> the colour, None when it threw]
GetPixel(a, x, y) ==
  IF ~isInBounds(a.buffer, x, y) THEN [a |-> [a EXCEPT !.err = TRUE], ret |-> None]
  ELSE [a |-> a, ret |-> BufGet(a.buffer, x, y)]

RECURSIVE SetPixels(_, _, _)
SetPixels(a, coords, color) ==
  IF coords = << >> THEN a
  ELSE SetPixels(SetPixel(a, Head(coords)[1], Head(coords)[2], color), Tail(coords), color)

\* One iteration of fillRect's loop over the tiles the rectangle touches.
FillRectTile(a, tileX, tileY, x, y, width, height, color) ==
  LET tilesWide == CeilDiv(a.buffer.width, TileSz)
      tilesHigh == CeilDiv(a.buffer.height, TileSz)
      tileStartX == tileX * TileSz
      tileStartY == tileY * TileSz
      tileEndX == Min(tileStartX + TileSz, a.buffer.width)
      tileEndY == Min(tileStartY + TileSz, a.buffer.height)
      tileIndex == [row |-> tileY, col |-> tileX]
      uniformColor == getUniformColor(a.tiles, tileIndex)
      oldColor == IF uniformColor # None THEN uniformColor ELSE TRANSPARENT
      filled == fillTile(a.buffer, a.tiles, tileIndex, color)
  IN IF a.err THEN a
     ELSE IF tileX >= tilesWide \/ tileY >= tilesHigh THEN a
     ELSE IF x <= tileStartX /\ y <= tileStartY /\ x + width >= tileEndX /\ y + height >= tileEndY
     THEN [a EXCEPT !.buffer = filled.buffer, !.tiles = filled.tiles,
                    !.diffs = addTileFill(a.diffs, [tileIndex |-> tileIndex, before |-> oldColor, after |-> color])]
     ELSE SetPixels(a, RectCoords(Max(x, tileStartX), Min(x + width, tileEndX),
                                  Max(y, tileStartY), Min(y + height, tileEndY)), color)

RECURSIVE FillRectTiles(_, _, _, _, _, _, _)
FillRectTiles(a, tileList, x, y, width, height, color) ==
  IF tileList = << >> THEN a
  ELSE FillRectTiles(FillRectTile(a, Head(tileList)[1], Head(tileList)[2], x, y, width, height, color),
                     Tail(tileList), x, y, width, height, color)

FillRect(a, x, y, width, height, color) ==
  IF width <= 0 \/ height <= 0 THEN a
  ELSE FillRectTiles(a, RectCoords(FloorDiv(x, TileSz), FloorDiv(x + width - 1, TileSz) + 1,
                                   FloorDiv(y, TileSz), FloorDiv(y + height - 1, TileSz) + 1),
                     x, y, width, height, color)

\* Clipping of one row of a bound box, as getPartialBuffer and setPartialBuffer
\* compute it: the columns shift <= col < shift + copyW of the box are copied.
BoxShift(box) == IF box.x < 0 THEN -box.x ELSE 0
BoxCopyW(b, box) ==
  LET copyW == box.width - BoxShift(box)
  IN IF box.x + copyW > b.width THEN b.width - box.x ELSE copyW
BoxCopies(b, box, row, col) ==
  /\ row >= 0 /\ row < box.height
  /\ box.y + row >= 0 /\ box.y + row < b.height
  /\ col >= BoxShift(box) /\ col < BoxShift(box) + BoxCopyW(b, box)

getPartialBuffer(b, box) ==
  IF box.width <= 0 \/ box.height <= 0 THEN << >>
  ELSE [i \in 1..(box.width * box.height) |->
          LET row == (i - 1) \div box.width
              col == (i - 1) % box.width
          IN IF BoxCopies(b, box, row, col)
             THEN b.data[(box.y + row) * b.width + box.x + col + 1]
             ELSE TRANSPARENT]

setPartialBuffer(b, box, source) ==
  IF box.width <= 0 \/ box.height <= 0 THEN b
  ELSE [b EXCEPT !.data = [j \in DOMAIN @ |->
          LET row == ((j - 1) \div b.width) - box.y
              col == ((j - 1) % b.width) - box.x
          IN IF BoxCopies(b, box, row, col) THEN source[row * box.width + col + 1] ELSE @[j]]]

exportWebp(b) == rawToWebp(b.data, b.width, b.height)

handleBufferMutation(a, newWidth, newHeight) ==
  [a EXCEPT !.tiles = setAllDirty(resizeTiles(a.tiles, newWidth, newHeight)),
            !.diffs = discard(a.diffs)]

\* Anvil.importWebp: the buffer takes the decoded pixels and the given size.
importWebp(a, webp, width, height) ==
  handleBufferMutation([a EXCEPT !.buffer = [width |-> width, height |-> height,
                                            data |-> webpToRaw(webp, width, height)]],
                       width, height)

AddWholeDiff(a, swapBuffer) ==
  [a EXCEPT !.diffs = addWhole(a.diffs, [swapBuffer |-> swapBuffer, width |-> a.buffer.width,
                                         height |-> a.buffer.height]),
            !.tiles = setAllDirty(a.tiles)]

AddCurrentWholeDiff(a) ==
  [a EXCEPT !.diffs = addWholePacked(a.diffs, [swapBufferWebp |-> exportWebp(a.buffer),
                                               width |-> a.buffer.width, height |-> a.buffer.height]),
            !.tiles = setAllDirty(a.tiles)]

RECURSIVE SetDirtyAll(_, _)
SetDirtyAll(t, tileList) ==
  IF tileList = << >> THEN t
  ELSE SetDirtyAll(setDirty(t, [row |-> Head(tileList)[2], col |-> Head(tileList)[1]], TRUE), Tail(tileList))

\* addPartialDiff that marks the tiles whether asked to or not.
AddPartialDiff_AlwaysMarks(a, boundBox, swapBuffer, markDirty) ==
  LET r == addPartial(a.diffs, [boundBox |-> boundBox, swapBuffer |-> swapBuffer]) IN
  IF r.err THEN [a EXCEPT !.err = TRUE]
  ELSE [a EXCEPT !.diffs = r.d,
                 !.tiles = SetDirtyAll(@, RectCoords(
                             FloorDiv(boundBox.x, TileSz), FloorDiv(boundBox.x + boundBox.width - 1, TileSz) + 1,
                             FloorDiv(boundBox.y, TileSz), FloorDiv(boundBox.y + boundBox.height - 1, TileSz) + 1))]

AddPartialDiff(a, boundBox, swapBuffer, markDirty) ==
  LET r == addPartial(a.diffs, [boundBox |-> boundBox, swapBuffer |-> swapBuffer]) IN
  IF r.err THEN [a EXCEPT !.err = TRUE]
  ELSE [a EXCEPT !.diffs = r.d,
                 !.tiles = IF markDirty
                           THEN SetDirtyAll(@, RectCoords(
                                  FloorDiv(boundBox.x, TileSz), FloorDiv(boundBox.x + boundBox.width - 1, TileSz) + 1,
                                  FloorDiv(boundBox.y, TileSz), FloorDiv(boundBox.y + boundBox.height - 1, TileSz) + 1))
                           ELSE @]

\* The pixel entries of applyPatch, one at a time and in list order: st holds the
\* facade and the entries rewritten so far.
RECURSIVE ApplyPixels(_, _)
ApplyPixels(st, entries) ==
  IF entries = << >> \/ st.a.err THEN st
  ELSE LET p == Head(entries)
           colorUnpacked == packedU32ToRgba(p.color)
           inb == isInBounds(st.a.buffer, p.x, p.y)
           swapColor == BufGet(st.a.buffer, p.x, p.y)
       IN IF ~inb THEN [st EXCEPT !.a.err = TRUE]
          ELSE ApplyPixels([a |-> SetPixel(st.a, p.x, p.y, colorUnpacked),
                            out |-> Append(st.out, [x |-> p.x, y |-> p.y, color |-> rgbaToPackedU32(swapColor)])],
                           Tail(entries))

ApplyWhole(st) ==
  IF st.patch.whole = None THEN st
  ELSE [a |-> importWebp(st.a, st.patch.whole.swapBufferWebp, st.a.buffer.width, st.a.buffer.height),
        patch |-> [st.patch EXCEPT !.whole.swapBufferWebp = exportWebp(st.a.buffer)]]

ApplyPartial(st) ==
  IF st.patch.partial = None THEN st
  ELSE LET boundBox == st.patch.partial.boundBox
           decoded == webpToRaw(st.patch.partial.swapBufferWebp, boundBox.width, boundBox.height)
           currentPartial == getPartialBuffer(st.a.buffer, boundBox)
       IN [a |-> [st.a EXCEPT !.buffer = setPartialBuffer(@, boundBox, decoded)],
           patch |-> [st.patch EXCEPT !.partial.swapBufferWebp =
                        rawToWebp(currentPartial, boundBox.width, boundBox.height)]]

\* The pixel step that writes the entries but leaves them as they were.
ApplyPixelEntries_NoRewrite(st) ==
  IF st.patch.pixels = None THEN st
  ELSE [a |-> ApplyPixels([a |-> st.a, out |-> << >>], st.patch.pixels).a, patch |-> st.patch]

ApplyPixelEntries(st) ==
  IF st.patch.pixels = None THEN st
  ELSE LET r == ApplyPixels([a |-> st.a, out |-> << >>], st.patch.pixels)
       IN [a |-> r.a, patch |-> IF r.a.err THEN st.patch ELSE [st.patch EXCEPT !.pixels = r.out]]

\* applyPatch that applies the partial payload before the whole payload.
ApplyPatch_PartialFirst(a, patch, mode) ==
  IF patch = None THEN [a |-> a, patch |-> patch]
  ELSE LET r == ApplyPixelEntries(ApplyWhole(ApplyPartial([a |-> a, patch |-> patch])))
       IN IF r.a.err THEN r ELSE [r EXCEPT !.a.tiles = setAllDirty(@)]

\* applyPatch without the closing setAllDirty.
ApplyPatch_NoSetAllDirty(a, patch, mode) ==
  IF patch = None THEN [a |-> a, patch |-> patch]
  ELSE ApplyPixelEntries(ApplyPartial(ApplyWhole([a |-> a, patch |-> patch])))

\* applyPatch(patch, mode): [a |-> the facade after the call, patch |-> the patch
\* object after the call].  mode is not read by the code.
ApplyPatch(a, patch, mode) ==
  IF patch = None THEN [a |-> a, patch |-> patch]
  ELSE LET r == ApplyPixelEntries(ApplyPartial(ApplyWhole([a |-> a, patch |-> patch])))
       IN IF r.a.err THEN r ELSE [r EXCEPT !.a.tiles = setAllDirty(@)]

\* flushDiffs: [a |-> the facade after the call, ret |-> the patch or None (null)]
\* The legacy Anvil.flush: the same, and every dirty flag is cleared.
FlushDiffs_ClearsDirty(a) ==
  LET r == flush(a.diffs) IN [a |-> [a EXCEPT !.diffs = r.d, !.tiles = clearAllDirty(@)], ret |-> r.ret]

FlushDiffs(a) ==
  LET r == flush(a.diffs) IN [a |-> [a EXCEPT !.diffs = r.d], ret |-> r.ret]

\* floodFill: [a |-> the facade after the call, ret |-> whether a pixel changed]
FloodFill(a, startX, startY, color) ==
  LET r == floodFill(a.buffer, startX, startY, color) IN [a |-> [a EXCEPT !.buffer = r.b], ret |-> r.ok]

Origin == [x |-> 0, y |-> 0]

\* A resize that keeps whatever is pending.
Resize_KeepsDiffs(a, newWidth, newHeight) ==
  [a EXCEPT !.buffer = resizeBuffer(@, [width |-> newWidth, height |-> newHeight], Origin, Origin),
            !.tiles = resizeTiles(@, newWidth, newHeight)]

Resize(a, newWidth, newHeight) ==
  [a EXCEPT !.buffer = resizeBuffer(@, [width |-> newWidth, height |-> newHeight], Origin, Origin),
            !.tiles = resizeTiles(@, newWidth, newHeight),
            !.diffs = discard(@)]

ResizeWithOffset(a, newSize, srcOrigin, destOrigin) ==
  [a EXCEPT !.buffer = resizeBuffer(@, newSize, srcOrigin, destOrigin),
            !.tiles = resizeTiles(@, newSize.width, newSize.height),
            !.diffs = discard(@)]

\* replaceBuffer(buffer, width?, height?): width and height are None when the
\* argument is left out.  The resize comes first, the length check after it.
ReplaceBuffer(a, buf, width, height) ==
  LET a1 == IF width # None /\ height # None THEN Resize(a, width[1], height[1]) ELSE a
      expectedLength == a1.buffer.width * a1.buffer.height * BytesPerPixel
  IN IF Len(buf) * BytesPerPixel # expectedLength THEN [a1 EXCEPT !.err = TRUE]
     ELSE handleBufferMutation([a1 EXCEPT !.buffer.data = buf], a1.buffer.width, a1.buffer.height)

SetDirty(a, x, y) == [a EXCEPT !.tiles = markDirtyByPixel(@, x, y)]

DiscardDiffs(a) == [a EXCEPT !.diffs = discard(@)]

ClearDirtyTiles(a) == [a EXCEPT !.tiles = clearAllDirty(@)]

\* ------------------------------------------------------------------ Buffer and Lapse (the layered engine)
\* A layer is a Buffer with a Lapse on it. The Buffer wraps the native
\* RgbaBuffer, read and written here as the pixel array b; a lapse is
\* [undoStack, redoStack, hasBuffer].
\* The pixel entries of Buffer.applyPatch, in list order: st holds the buffer
\* and the entries rewritten so far.
RECURSIVE BufferApplyPixels(_, _)
BufferApplyPixels(st, entries) ==
  IF entries = << >> THEN st
  ELSE LET p == Head(entries)
           colorUnpacked == packedU32ToRgba(p.color)
           swapColor == BufGet(st.b, p.x, p.y)
       IN BufferApplyPixels([b |-> BufSet(st.b, p.x, p.y, colorUnpacked),
                             out |-> Append(st.out, [x |-> p.x, y |-> p.y,
                                                     color |-> rgbaToPackedU32(swapColor)])],
                            Tail(entries))

\* Buffer.applyPatch that writes the entries but leaves them as they were.
BufferApplyPatch_NoRewrite(b, patch, mode) ==
  IF patch = None THEN [b |-> b, patch |-> patch]
  ELSE [b |-> BufferApplyPixels([b |-> b, out |-> << >>],
                                IF patch.pixels = None THEN << >> ELSE patch.pixels).b,
        patch |-> patch]

\* Buffer.applyPatch(patch, mode): [b |-> the buffer after the call, patch |->
\* the patch object after the call].  mode is only logged.
BufferApplyPatch(b, patch, mode) ==
  IF patch = None THEN [b |-> b, patch |-> patch]
  ELSE LET b1 == IF patch.whole = None THEN b
                 ELSE [b EXCEPT !.data = webpToRaw(patch.whole.swapBufferWebp, b.width, b.height)]
           p1 == IF patch.whole = None THEN patch
                 ELSE [patch EXCEPT !.whole.swapBufferWebp = exportWebp(b)]
           boundBox == p1.partial.boundBox
           b2 == IF p1.partial = None THEN b1
                 ELSE setPartialBuffer(b1, boundBox,
                        webpToRaw(p1.partial.swapBufferWebp, boundBox.width, boundBox.height))
           p2 == IF p1.partial = None THEN p1
                 ELSE [p1 EXCEPT !.partial.swapBufferWebp =
                         rawToWebp(getPartialBuffer(b1, boundBox), boundBox.width, boundBox.height)]
           r == BufferApplyPixels([b |-> b2, out |-> << >>],
                                  IF p2.pixels = None THEN << >> ELSE p2.pixels)
       IN [b |-> r.b, patch |-> IF p2.pixels = None THEN p2 ELSE [p2 EXCEPT !.pixels = r.out]]

\* setBuffer: the Lapse has a buffer from now on.
setBuffer(lapse) == [lapse EXCEPT !.hasBuffer = TRUE]

\* registerDiff that leaves the redo stack as it is.
registerDiff_KeepsRedo(lapse, diff) ==
  [lapse EXCEPT !.undoStack = Append(@, diff)]

registerDiff(lapse, diff) ==
  [lapse EXCEPT !.undoStack = Append(@, diff), !.redoStack = << >>]

\* undo: [lapse, b |-> the buffer after the call, ret |-> the patch or None
\* (null), err |-> whether the call threw].  The patch is popped before the
\* buffer is looked at.
undo(lapse, b) ==
  IF lapse.undoStack = << >> THEN [lapse |-> lapse, b |-> b, ret |-> None, err |-> FALSE]
  ELSE LET popped == [lapse EXCEPT !.undoStack = SubSeq(@, 1, Len(@) - 1)]
           r == BufferApplyPatch(b, lapse.undoStack[Len(lapse.undoStack)], "undo")
       IN IF ~lapse.hasBuffer THEN [lapse |-> popped, b |-> b, ret |-> None, err |-> TRUE]
          ELSE [lapse |-> [popped EXCEPT !.redoStack = Append(@, r.patch)],
                b |-> r.b, ret |-> r.patch, err |-> FALSE]

redo(lapse, b) ==
  IF lapse.redoStack = << >> THEN [lapse |-> lapse, b |-> b, ret |-> None, err |-> FALSE]
  ELSE LET popped == [lapse EXCEPT !.redoStack = SubSeq(@, 1, Len(@) - 1)]
           r == BufferApplyPatch(b, lapse.redoStack[Len(lapse.redoStack)], "redo")
       IN IF ~lapse.hasBuffer THEN [lapse |-> popped, b |-> b, ret |-> None, err |-> TRUE]
          ELSE [lapse |-> [popped EXCEPT !.undoStack = Append(@, r.patch)],
                b |-> r.b, ret |-> r.patch, err |-> FALSE]

\* AnvilAPI.setPixel that writes the pixel in every layer.
AnvilAPI_setPixel_AllLayers(buffers, layerIndex, x, y, color) ==
  [i \in DOMAIN buffers |-> BufSet(buffers[i], x, y, color)]

\* AnvilAPI.setPixel of the API bound to layer layerIndex; buffers holds the
\* buffer of every layer.
AnvilAPI_setPixel(buffers, layerIndex, x, y, color) ==
  [buffers EXCEPT ![layerIndex] = BufSet(@, x, y, color)]

\* ------------------------------------------------------------------ batch mode (the facade of src/src/Anvil.ts)
\* _batchDepth = 0 and both sets null, as the fields are initialised.
NoBatch == [depth |-> 0, dirtyTiles |-> None, uniformCheckTiles |-> None]

\* beginBatch: the two sets are created by the outermost call only.
beginBatch(a) ==
  [a EXCEPT !.batch = [depth |-> @.depth + 1,
                       dirtyTiles |-> IF @.depth = 0 THEN Some({}) ELSE @.dirtyTiles,
                       uniformCheckTiles |-> IF @.depth = 0 THEN Some({}) ELSE @.uniformCheckTiles]]

\* setPixel of the batching facade: inside a batch the tile is only noted in the
\* two sets; outside it is marked dirty and its uniformity is detected at once.
Anvil_setPixel(a, x, y, color) ==
  IF ~isInBounds(a.buffer, x, y) THEN [a EXCEPT !.err = TRUE]
  ELSE LET oldColor == BufGet(a.buffer, x, y)
           b1 == BufSet(a.buffer, x, y, color)
           tileIndex == pixelToTileIndex(x, y)
           d1 == addPixel(a.diffs, [x |-> x, y |-> y, color |-> oldColor])
       IN IF a.batch.depth > 0
            THEN [a EXCEPT !.buffer = b1, !.diffs = d1,
                           !.batch.dirtyTiles = Some(@[1] \cup {tileIndex}),
                           !.batch.uniformCheckTiles = Some(@[1] \cup {tileIndex})]
            ELSE [a EXCEPT !.buffer = b1, !.diffs = d1,
                           !.tiles = detectTileUniformity(b1, markDirtyByPixel(@, x, y), tileIndex)]

\* The first loop of endBatch: markDirtyByPixel(row * tileSize, col * tileSize)
\* for every noted tile, the row in the place of x and the column in that of y.
RECURSIVE endBatchDirty(_, _)
endBatchDirty(t, keys) ==
  IF keys = {} THEN t
  ELSE LET key == CHOOSE k \in keys : TRUE IN
       endBatchDirty(markDirtyByPixel(t, key.row * TileSz, key.col * TileSz), keys \ {key})

\* The second loop of endBatch: checkTileUniformity of every noted tile.
RECURSIVE endBatchUniform(_, _, _)
endBatchUniform(b, t, keys) ==
  IF keys = {} THEN t
  ELSE LET key == CHOOSE k \in keys : TRUE IN
       endBatchUniform(b, detectTileUniformity(b, t, key), keys \ {key})

\* endBatch: nothing at depth 0, only the count inside a nested batch, both loops
\* when the outermost batch ends.
endBatch(a) ==
  IF a.batch.depth = 0 THEN a
  ELSE IF a.batch.depth - 1 > 0 THEN [a EXCEPT !.batch.depth = @ - 1]
  ELSE [a EXCEPT !.batch = NoBatch,
                 !.tiles = endBatchUniform(a.buffer, endBatchDirty(@, a.batch.dirtyTiles[1]),
                                           a.batch.uniformCheckTiles[1])]

\* ------------------------------------------------------------------ state
VARIABLES
  buffer,   \* the facade's pixel buffer: [width, height, data]
  tiles,    \* the facade's tile index
  diffs,    \* the pending diffs of the facade's (or the stand-alone) controller
  thrown,   \* whether the last call threw
  patch,    \* the patch object the caller holds: the last flush/preview result
  stage,    \* what the caller did with the held patch: "none", "flushed", "undone", "redone"
  base,     \* buffer data when the pending diffs were last empty, None once
            \* anything but set_pixel has run since
  hist,     \* for the held patch: [B0 |-> base at the flush, B1 |-> the buffer data at
            \* the flush, P |-> the patch as flushed]; None when no patch is held.
            \* SpecDiffs: the add_pixel calls since the pixel list was last
            \* emptied. SpecSnap: the kept patch as flush returned it.
  written,  \* tiles that contain a pixel written by set_pixel / fill_rect since the
            \* dirty flags were last cleared
  shared,   \* the fields ("pixels", "partial", "whole") of the held patch whose value
            \* is the very object the controller still holds as its pending field
  last,     \* the last call: [op |-> its name, had |-> the kinds of diffs that were
            \* pending when it was made]; kept by the callers whose claims need it
  batch     \* the batch mode of the facade that has one: [depth |-> _batchDepth,
            \* dirtyTiles |-> _batchDirtyTiles, uniformCheckTiles |->
            \* _batchUniformCheckTiles], the two sets None while null

vars == <<buffer, tiles, diffs, thrown, patch, stage, base, hist, written, shared, last, batch>>

Cur == [buffer |-> buffer, tiles |-> tiles, diffs |-> diffs, err |-> FALSE]

\* The kinds of diffs pending in d.
Pending(d) ==
  (IF Len(d.pixels) > 0 THEN {"pixels"} ELSE {}) \cup (IF d.partial # None THEN {"partial"} ELSE {})
    \cup (IF d.whole # None THEN {"whole"} ELSE {})

\* Every tile index of the grid t.
AllTiles(t) == {[row |-> r, col |-> c] : r \in 0..(t.rows - 1), c \in 0..(t.cols - 1)}

\* The facade's three owners after a call that left them as a.
Becomes(a) == buffer' = a.buffer /\ tiles' = a.tiles /\ diffs' = a.diffs /\ thrown' = a.err

Xs == 0..(BufW - 1)
Ys == 0..(BufH - 1)

\* Raw buffers a caller passes in: one colour throughout.
Solid(n, color) == [i \in 1..n |-> color]

\* Bound boxes callers register partial diffs for.
PartialBoxes ==
  {[x |-> 1, y |-> 0, width |-> 2, height |-> BufH],
   [x |-> 0, y |-> BufH - 1, width |-> 1, height |-> 1]}

Init ==
  /\ buffer = NewBuffer(BufW, BufH)
  /\ tiles = NewTiles(BufW, BufH)
  /\ diffs = NoDiffs
  /\ thrown = FALSE
  /\ patch = None
  /\ stage = "none"
  /\ base = NewBuffer(BufW, BufH).data
  /\ hist = None
  /\ written = {}
  /\ shared = {}
  /\ last = [op |-> "none", had |-> {}]
  /\ batch = NoBatch

\* ------------------------------------------------------------------ calls
\* One call of each operation on the facade, without the caller's bookkeeping.
SetPixelCall(x, y, color) ==
  /\ Len(diffs.pixels) < MaxPixels
  /\ Becomes(SetPixel(Cur, x, y, color))

FillRectCall(x, y, width, height, color) ==
  LET a == FillRect(Cur, x, y, width, height, color) IN
  /\ Len(a.diffs.pixels) <= MaxPixels
  /\ Becomes(a)

AddWholeDiffCall(color) ==
  Becomes(AddWholeDiff(Cur, Solid(buffer.width * buffer.height, color)))

AddPartialDiffCall(boundBox, color, markDirty) ==
  Becomes(AddPartialDiff(Cur, boundBox, Solid(boundBox.width * boundBox.height, color), markDirty))

\* ------------------------------------------------------------------ Spec: drawing
\* A caller that draws, flushes (and drops the patch) and clears the dirty flags.
TileContaining(x, y) ==
  CHOOSE ix \in [row : 0..BufH, col : 0..BufW] :
    /\ ix.col * TileSz <= x /\ x < (ix.col + 1) * TileSz
    /\ ix.row * TileSz <= y /\ y < (ix.row + 1) * TileSz

DrawSetPixel(x, y, color) ==
  /\ SetPixelCall(x, y, color)
  /\ written' = written \cup {TileContaining(x, y)}
  /\ UNCHANGED <<patch, stage, base, hist, shared, last, batch>>

DrawFillRect(x, y, width, height, color) ==
  /\ FillRectCall(x, y, width, height, color)
  /\ written' = written \cup {TileContaining(px, py) : px \in x..(x + width - 1), py \in y..(y + height - 1)}
  /\ UNCHANGED <<patch, stage, base, hist, shared, last, batch>>

DrawFlushDiffs ==
  /\ hasPendingChanges(diffs)
  /\ Becomes(FlushDiffs(Cur).a)
  /\ UNCHANGED <<patch, stage, base, hist, written, shared, last, batch>>

DrawClearDirtyTiles ==
  /\ tiles.dirtyFlags # {}
  /\ Becomes(ClearDirtyTiles(Cur))
  /\ written' = {}
  /\ UNCHANGED <<patch, stage, base, hist, shared, last, batch>>

Next ==
  \/ \E x \in Xs, y \in Ys, color \in Colors : DrawSetPixel(x, y, color)
  \/ \E x \in Xs, y \in Ys, width \in 1..BufW, height \in 1..BufH, color \in Colors :
       x + width <= BufW /\ y + height <= BufH /\ DrawFillRect(x, y, width, height, color)
  \/ DrawFlushDiffs
  \/ DrawClearDirtyTiles

Spec == Init /\ [][Next]_vars

\* ------------------------------------------------------------------ SpecPatch: undo / redo
\* A caller that records diffs, flushes them into a patch, applies the patch as
\* undo, applies the same object as redo, then drops it and starts over.
PatchSetPixel(x, y, color) ==
  /\ patch = None
  /\ SetPixelCall(x, y, color)
  /\ UNCHANGED <<patch, stage, base, hist, written, shared, last, batch>>

PatchAddWholeDiff(color) ==
  /\ patch = None
  /\ AddWholeDiffCall(color)
  /\ base' = None
  /\ UNCHANGED <<patch, stage, hist, written, shared, last, batch>>

PatchAddPartialDiff(boundBox, color, markDirty) ==
  /\ patch = None
  /\ AddPartialDiffCall(boundBox, color, markDirty)
  /\ base' = None
  /\ UNCHANGED <<patch, stage, hist, written, shared, last, batch>>

PatchFlushDiffs ==
  LET r == FlushDiffs(Cur) IN
  /\ patch = None
  /\ r.ret # None
  /\ Becomes(r.a)
  /\ patch' = r.ret
  /\ stage' = "flushed"
  /\ hist' = [B0 |-> base, B1 |-> buffer.data, P |-> r.ret]
  /\ UNCHANGED <<base, written, shared, last, batch>>

PatchApply(mode) ==
  LET r == ApplyPatch(Cur, patch, mode) IN
  /\ \/ stage = "flushed" /\ mode = "undo" /\ stage' = "undone"
     \/ stage = "undone" /\ mode = "redo" /\ stage' = "redone"
  /\ Becomes(r.a)
  /\ patch' = r.patch
  /\ UNCHANGED <<base, hist, written, shared, last, batch>>

\* The caller drops the patch and discards what the applies recorded.
PatchRelease ==
  /\ stage \in {"undone", "redone"}
  /\ Becomes([Cur EXCEPT !.diffs = discard(@)])
  /\ patch' = None
  /\ stage' = "none"
  /\ base' = buffer.data
  /\ hist' = None
  /\ UNCHANGED <<written, shared, last, batch>>

NextPatch ==
  \/ \E x \in Xs, y \in Ys, color \in Colors : PatchSetPixel(x, y, color)
  \/ \E color \in Colors : PatchAddWholeDiff(color)
  \/ \E boundBox \in PartialBoxes, color \in Colors, markDirty \in BOOLEAN :
       PatchAddPartialDiff(boundBox, color, markDirty)
  \/ PatchFlushDiffs
  \/ \E mode \in {"undo", "redo"} : PatchApply(mode)
  \/ PatchRelease

SpecPatch == Init /\ [][NextPatch]_vars

\* ------------------------------------------------------------------ SpecDiffs: the controller alone
\* A caller of the DiffsController: it adds diffs, and flushes or previews them
\* into a patch that it drops before it adds again. Here hist is the log of
\* the add_pixel calls made since the pixel list was last emptied by a flush,
\* a discard, an accepted add_partial or an add_whole.
DiffsAddPixel(x, y, color) ==
  /\ patch = None
  /\ Len(diffs.pixels) < MaxPixels
  /\ diffs' = addPixel(diffs, [x |-> x, y |-> y, color |-> color])
  /\ thrown' = FALSE
  /\ hist' = Append(hist, [x |-> x, y |-> y, color |-> color])
  /\ last' = [op |-> "add_pixel", had |-> Pending(diffs)]
  /\ UNCHANGED <<buffer, tiles, patch, stage, base, written, shared, batch>>

\* extra: how many pixels the swap buffer is longer (or, negative, shorter) than the bound box
DiffsAddPartial(boundBox, color, extra) ==
  LET r == addPartial(diffs, [boundBox |-> boundBox,
                              swapBuffer |-> Solid(boundBox.width * boundBox.height + extra, color)]) IN
  /\ patch = None
  /\ diffs' = r.d
  /\ thrown' = r.err
  /\ hist' = IF extra = 0 THEN << >> ELSE hist
  /\ last' = [op |-> IF extra = 0 THEN "add_partial" ELSE "add_partial_bad", had |-> Pending(diffs)]
  /\ UNCHANGED <<buffer, tiles, patch, stage, base, written, shared, batch>>

DiffsAddWhole(color) ==
  /\ patch = None
  /\ diffs' = addWhole(diffs, [swapBuffer |-> Solid(BufW * BufH, color), width |-> BufW, height |-> BufH])
  /\ thrown' = FALSE
  /\ hist' = << >>
  /\ last' = [op |-> "add_whole", had |-> Pending(diffs)]
  /\ UNCHANGED <<buffer, tiles, patch, stage, base, written, shared, batch>>

DiffsAddWholePacked(color) ==
  /\ patch = None
  /\ diffs' = addWholePacked(diffs, [swapBufferWebp |-> rawToWebp(Solid(BufW * BufH, color), BufW, BufH),
                                     width |-> BufW, height |-> BufH])
  /\ thrown' = FALSE
  /\ hist' = << >>
  /\ last' = [op |-> "add_whole_packed", had |-> Pending(diffs)]
  /\ UNCHANGED <<buffer, tiles, patch, stage, base, written, shared, batch>>

\* flush returns undefined when nothing is pending: the caller then holds no patch.
DiffsFlush ==
  /\ diffs' = flush(diffs).d
  /\ patch' = flush(diffs).ret
  /\ thrown' = FALSE
  /\ hist' = << >>
  /\ last' = [op |-> "flush", had |-> Pending(diffs)]
  /\ UNCHANGED <<buffer, tiles, stage, base, written, shared, batch>>

DiffsPreview ==
  /\ patch' = previewPatch(diffs)
  /\ thrown' = FALSE
  /\ last' = [op |-> "preview", had |-> Pending(diffs)]
  /\ UNCHANGED <<buffer, tiles, diffs, stage, base, hist, written, shared, batch>>

DiffsDiscard ==
  /\ patch = None
  /\ hasPendingChanges(diffs)
  /\ diffs' = discard(diffs)
  /\ thrown' = FALSE
  /\ hist' = << >>
  /\ last' = [op |-> "discard", had |-> Pending(diffs)]
  /\ UNCHANGED <<buffer, tiles, patch, stage, base, written, shared, batch>>

DiffsDropPatch ==
  /\ patch # None
  /\ patch' = None
  /\ UNCHANGED <<buffer, tiles, diffs, thrown, stage, base, hist, written, shared, last, batch>>

NextDiffs ==
  \/ \E x \in Xs, y \in Ys, color \in Colors : DiffsAddPixel(x, y, color)
  \/ \E boundBox \in PartialBoxes, color \in Colors, extra \in {-1, 0, 1} : DiffsAddPartial(boundBox, color, extra)
  \/ \E color \in Colors : DiffsAddWhole(color)
  \/ \E color \in Colors : DiffsAddWholePacked(color)
  \/ DiffsFlush
  \/ DiffsPreview
  \/ DiffsDiscard
  \/ DiffsDropPatch

SpecDiffs == Init /\ [][NextDiffs]_vars

\* ------------------------------------------------------------------ SpecSnap: a patch kept while work goes on
\* A caller of the DiffsController that flushes, keeps the returned patch and
\* goes on adding, previewing, flushing and discarding. Here hist is the patch
\* as flush returned it.
SnapAddPixel(x, y, color) ==
  LET unpacked == [x |-> x, y |-> y, color |-> color] IN
  /\ Len(diffs.pixels) < MaxPixels
  /\ diffs' = addPixel(diffs, unpacked)
  /\ patch' = IF patch = None THEN None ELSE pushSeenBy(patch, shared, unpacked)
  /\ UNCHANGED <<buffer, tiles, thrown, stage, base, hist, written, shared, last, batch>>

SnapAddPartial(boundBox, color) ==
  LET r == addPartial(diffs, [boundBox |-> boundBox,
                              swapBuffer |-> Solid(boundBox.width * boundBox.height, color)]) IN
  /\ diffs' = r.d
  /\ thrown' = r.err
  /\ shared' = shared \ addPartialReplaces
  /\ UNCHANGED <<buffer, tiles, patch, stage, base, hist, written, last, batch>>

SnapAddWhole(color) ==
  /\ diffs' = addWhole(diffs, [swapBuffer |-> Solid(BufW * BufH, color), width |-> BufW, height |-> BufH])
  /\ thrown' = FALSE
  /\ shared' = shared \ addWholeReplaces
  /\ UNCHANGED <<buffer, tiles, patch, stage, base, hist, written, last, batch>>

\* The flush whose patch the caller keeps.
SnapFlush ==
  /\ patch = None
  /\ hasPendingChanges(diffs)
  /\ diffs' = flush(diffs).d
  /\ patch' = flush(diffs).ret
  /\ hist' = flush(diffs).ret
  /\ shared' = flushShares(diffs)
  /\ stage' = "flushed"
  /\ thrown' = FALSE
  /\ UNCHANGED <<buffer, tiles, base, written, last, batch>>

\* A later flush, whose own patch the caller drops at once.
SnapFlushAgain ==
  /\ patch # None
  /\ hasPendingChanges(diffs)
  /\ diffs' = flush(diffs).d
  /\ shared' = shared \ discardReplaces
  /\ thrown' = FALSE
  /\ UNCHANGED <<buffer, tiles, patch, stage, base, hist, written, last, batch>>

\* A later preview, whose result the caller drops at once.
SnapPreview ==
  /\ patch # None
  /\ previewPatch(diffs) # None
  /\ thrown' = FALSE
  /\ UNCHANGED <<buffer, tiles, diffs, patch, stage, base, hist, written, shared, last, batch>>

SnapDiscard ==
  /\ hasPendingChanges(diffs)
  /\ diffs' = discard(diffs)
  /\ shared' = shared \ discardReplaces
  /\ thrown' = FALSE
  /\ UNCHANGED <<buffer, tiles, patch, stage, base, hist, written, last, batch>>

SnapDropPatch ==
  /\ patch # None
  /\ patch' = None
  /\ hist' = None
  /\ shared' = {}
  /\ stage' = "none"
  /\ UNCHANGED <<buffer, tiles, diffs, thrown, base, written, last, batch>>

NextSnap ==
  \/ \E x \in Xs, y \in Ys : SnapAddPixel(x, y, ORANGE)
  \/ \E boundBox \in PartialBoxes, color \in Colors : SnapAddPartial(boundBox, color)
  \/ \E color \in Colors : SnapAddWhole(color)
  \/ SnapFlush
  \/ SnapFlushAgain
  \/ SnapPreview
  \/ SnapDiscard
  \/ SnapDropPatch

SpecSnap == Init /\ [][NextSnap]_vars

\* ------------------------------------------------------------------ SpecEdge: calls at and past the edges
\* A caller that also passes coordinates, rectangles and boxes that lie partly
\* or wholly outside the buffer. Here last also tells whether the call's
\* coordinate or rectangle lay outside the buffer.
EdgeSetPixel(x, y, color) ==
  /\ ~isInBounds(buffer, x, y) \/ Len(diffs.pixels) < MaxRzPixels
  /\ SetPixelCall(x, y, color)
  /\ last' = [op |-> "set_pixel", had |-> {}, outside |-> ~isInBounds(buffer, x, y)]
  /\ UNCHANGED <<patch, stage, base, hist, written, shared, batch>>

EdgeGetPixel(x, y) ==
  /\ Becomes(GetPixel(Cur, x, y).a)
  /\ last' = [op |-> "get_pixel", had |-> {}, outside |-> ~isInBounds(buffer, x, y)]
  /\ UNCHANGED <<patch, stage, base, hist, written, shared, batch>>

EdgeFillRect(x, y, width, height, color) ==
  /\ Len(FillRect(Cur, x, y, width, height, color).diffs.pixels) <= MaxRzPixels
  /\ FillRectCall(x, y, width, height, color)
  /\ last' = [op |-> "fill_rect", had |-> {}, outside |-> (x + width <= 0 \/ y + height <= 0
                                                   \/ x >= buffer.width \/ y >= buffer.height)]
  /\ UNCHANGED <<patch, stage, base, hist, written, shared, batch>>

EdgeFlushDiffs ==
  /\ hasPendingChanges(diffs)
  /\ Becomes(FlushDiffs(Cur).a)
  /\ last' = [op |-> "flush_diffs", had |-> {}]
  /\ UNCHANGED <<patch, stage, base, hist, written, shared, batch>>

EdgeClearDirtyTiles ==
  /\ tiles.dirtyFlags # {}
  /\ Becomes(ClearDirtyTiles(Cur))
  /\ last' = [op |-> "clear_dirty_tiles", had |-> {}]
  /\ UNCHANGED <<patch, stage, base, hist, written, shared, batch>>

NextEdge ==
  \/ \E x \in (-1)..BufW, y \in (-1)..BufH, color \in Colors : EdgeSetPixel(x, y, color)
  \/ \E x \in (-1)..BufW, y \in (-1)..BufH : EdgeGetPixel(x, y)
  \/ \E x \in (-TileSz)..BufW, y \in (-1)..BufH, width \in 1..TileSz, height \in 1..BufH :
       EdgeFillRect(x, y, width, height, ORANGE)
  \/ EdgeFlushDiffs
  \/ EdgeClearDirtyTiles

SpecEdge == Init /\ [][NextEdge]_vars

\* ------------------------------------------------------------------ SpecMark: marking tiles by hand
\* A caller that records partial diffs, with and without the request to mark
\* the tiles, and whole diffs, marks single tiles itself and clears the flags. Here last also
\* carries the bound box and the setDirty argument of add_partial_diff.
MarkAddPartialDiff(boundBox, color, markDirty) ==
  /\ AddPartialDiffCall(boundBox, color, markDirty)
  /\ last' = [op |-> "add_partial_diff", had |-> {}, boundBox |-> boundBox, setDirty |-> markDirty]
  /\ UNCHANGED <<patch, stage, base, hist, written, shared, batch>>

MarkAddWholeDiff(color) ==
  /\ AddWholeDiffCall(color)
  /\ last' = [op |-> "add_whole_diff", had |-> {}]
  /\ UNCHANGED <<patch, stage, base, hist, written, shared, batch>>

MarkSetDirty(x, y) ==
  /\ Becomes(SetDirty(Cur, x, y))
  /\ last' = [op |-> "set_dirty", had |-> {}]
  /\ UNCHANGED <<patch, stage, base, hist, written, shared, batch>>

MarkDiscardDiffs ==
  /\ hasPendingChanges(diffs)
  /\ Becomes(DiscardDiffs(Cur))
  /\ last' = [op |-> "discard_diffs", had |-> {}]
  /\ UNCHANGED <<patch, stage, base, hist, written, shared, batch>>

MarkClearDirtyTiles ==
  /\ tiles.dirtyFlags # {}
  /\ Becomes(ClearDirtyTiles(Cur))
  /\ last' = [op |-> "clear_dirty_tiles", had |-> {}]
  /\ UNCHANGED <<patch, stage, base, hist, written, shared, batch>>

NextMark ==
  \/ \E boundBox \in PartialBoxes \cup {[x |-> BufW - 1, y |-> 0, width |-> 2, height |-> BufH]}, color \in Colors, markDirty \in BOOLEAN :
       MarkAddPartialDiff(boundBox, color, markDirty)
  \/ \E color \in Colors : MarkAddWholeDiff(color)
  \/ \E x \in Xs, y \in Ys : MarkSetDirty(x, y)
  \/ MarkDiscardDiffs
  \/ MarkClearDirtyTiles

SpecMark == Init /\ [][NextMark]_vars

\* ------------------------------------------------------------------ SpecResize: flood fill and resize
\* A caller that draws single pixels and flood fills, records the whole buffer,
\* resizes the layer, flushes (and drops the patch) and clears the dirty flags.
ResizeSizes ==
  {[width |-> BufW, height |-> BufH], [width |-> BufW - 1, height |-> BufH],
   [width |-> BufW - 1, height |-> BufH + 1]}
Origins == {Origin, [x |-> 1, y |-> 0]}
GrownXs == 0..BufW
GrownYs == 0..BufH
Inks == {ORANGE, TRANSPARENT}

RzSetPixel(x, y, color) ==
  /\ isInBounds(buffer, x, y)
  /\ Len(diffs.pixels) < MaxRzPixels
  /\ SetPixelCall(x, y, color)
  /\ last' = [op |-> "other", had |-> {}]
  /\ UNCHANGED <<patch, stage, base, hist, written, shared, batch>>

RzFloodFill(startX, startY, color) ==
  /\ Becomes(FloodFill(Cur, startX, startY, color).a)
  /\ last' = [op |-> "other", had |-> {}]
  /\ UNCHANGED <<patch, stage, base, hist, written, shared, batch>>

RzAddCurrentWholeDiff ==
  /\ Becomes(AddCurrentWholeDiff(Cur))
  /\ last' = [op |-> "other", had |-> {}]
  /\ UNCHANGED <<patch, stage, base, hist, written, shared, batch>>

RzResize(newWidth, newHeight) ==
  /\ Becomes(Resize(Cur, newWidth, newHeight))
  /\ last' = [op |-> "resize", had |-> Pending(diffs)]
  /\ UNCHANGED <<patch, stage, base, hist, written, shared, batch>>

RzResizeWithOffset(newSize, srcOrigin, destOrigin) ==
  /\ Becomes(ResizeWithOffset(Cur, newSize, srcOrigin, destOrigin))
  /\ last' = [op |-> "resize", had |-> Pending(diffs)]
  /\ UNCHANGED <<patch, stage, base, hist, written, shared, batch>>

RzFlushDiffs ==
  /\ hasPendingChanges(diffs)
  /\ Becomes(FlushDiffs(Cur).a)
  /\ last' = [op |-> "other", had |-> {}]
  /\ UNCHANGED <<patch, stage, base, hist, written, shared, batch>>

RzClearDirtyTiles ==
  /\ tiles.dirtyFlags # {}
  /\ Becomes(ClearDirtyTiles(Cur))
  /\ last' = [op |-> "other", had |-> {}]
  /\ UNCHANGED <<patch, stage, base, hist, written, shared, batch>>

NextResize ==
  \/ \E x \in GrownXs, y \in GrownYs, color \in Inks : RzSetPixel(x, y, color)
  \/ \E startX \in GrownXs, startY \in GrownYs, color \in Inks : RzFloodFill(startX, startY, color)
  \/ RzAddCurrentWholeDiff
  \/ \E newSize \in ResizeSizes : RzResize(newSize.width, newSize.height)
  \/ \E newSize \in ResizeSizes, srcOrigin \in Origins, destOrigin \in Origins :
       RzResizeWithOffset(newSize, srcOrigin, destOrigin)
  \/ RzFlushDiffs
  \/ RzClearDirtyTiles

SpecResize == Init /\ [][NextResize]_vars

\* ------------------------------------------------------------------ SpecTiles: the tile index alone
\* A tile index on its own, as its unit tests drive it: flags are set and
\* cleared tile by tile or all at once, and the grid is resized.
ResizeWidths == 1..(BufW + 1)
ResizeHeights == 1..(BufH + TileSz)
TileRows == 0..(CeilDiv(BufH + TileSz, TileSz) - 1)
TileCols == 0..(CeilDiv(BufW + 1, TileSz) - 1)

TilesSetDirty(index, dirty) ==
  /\ tiles' = setDirty(tiles, index, dirty)
  /\ UNCHANGED <<buffer, diffs, thrown, patch, stage, base, hist, written, shared, last, batch>>

TilesSetUniform(index, uniform, color) ==
  /\ tiles' = setUniform(tiles, index, uniform, color)
  /\ UNCHANGED <<buffer, diffs, thrown, patch, stage, base, hist, written, shared, last, batch>>

TilesMarkDirtyByPixel(x, y) ==
  /\ tiles' = markDirtyByPixel(tiles, x, y)
  /\ UNCHANGED <<buffer, diffs, thrown, patch, stage, base, hist, written, shared, last, batch>>

TilesClearAllDirty ==
  /\ tiles' = clearAllDirty(tiles)
  /\ UNCHANGED <<buffer, diffs, thrown, patch, stage, base, hist, written, shared, last, batch>>

TilesSetAllDirty ==
  /\ tiles' = setAllDirty(tiles)
  /\ UNCHANGED <<buffer, diffs, thrown, patch, stage, base, hist, written, shared, last, batch>>

TilesResize(newWidth, newHeight) ==
  /\ tiles' = resizeTiles(tiles, newWidth, newHeight)
  /\ UNCHANGED <<buffer, diffs, thrown, patch, stage, base, hist, written, shared, last, batch>>

NextTiles ==
  \/ \E row \in TileRows, col \in TileCols, dirty \in BOOLEAN :
       TilesSetDirty([row |-> row, col |-> col], dirty)
  \/ \E row \in TileRows, col \in TileCols, uniform \in BOOLEAN, color \in {ORANGE, TRANSPARENT} :
       TilesSetUniform([row |-> row, col |-> col], uniform, color)
  \/ \E x \in (-1)..(BufW + 1), y \in (-1)..(BufH + TileSz) : TilesMarkDirtyByPixel(x, y)
  \/ TilesClearAllDirty
  \/ TilesSetAllDirty
  \/ \E newWidth \in ResizeWidths, newHeight \in ResizeHeights : TilesResize(newWidth, newHeight)

SpecTiles == Init /\ [][NextTiles]_vars

\* ------------------------------------------------------------------ SpecLapse: layers with their histories
\* An engine of NumLayers layers, each a Buffer of LayerW x LayerH pixels with a
\* Lapse on it, driven through one AnvilAPI per layer. Here buffer holds the
\* layers' buffers and hist their lapses, both indexed by layer; patch is what
\* the last undo or redo returned; last names the last call and its layer, and
\* for an undo the layer's buffer before the call.
Layers == 0..(NumLayers - 1)

\* The patches a caller registers: pixel entries at distinct coordinates.
LapsePatches ==
  {[whole |-> None, partial |-> None, tiles |-> None, pixels |-> pixels] :
     pixels \in {ps \in UNION {[1..n -> [x : 0..(LayerW - 1), y : 0..(LayerH - 1), color : {rgbaToPackedU32(c) : c \in Colors}]] :
                                 n \in 1..MaxPixels} :
                   \A i, j \in DOMAIN ps : i < j => (ps[i].x < ps[j].x \/ ps[i].y < ps[j].y)}}

InitLapse ==
  /\ buffer = [i \in Layers |-> NewBuffer(LayerW, LayerH)]
  /\ hist = [i \in Layers |-> [undoStack |-> << >>, redoStack |-> << >>, hasBuffer |-> TRUE]]
  /\ tiles = NewTiles(BufW, BufH)
  /\ diffs = NoDiffs
  /\ thrown = FALSE
  /\ patch = None
  /\ stage = "none"
  /\ base = None
  /\ written = {}
  /\ shared = {}
  /\ last = [op |-> "none", had |-> {}]
  /\ batch = NoBatch

\* The patches on all undo and redo stacks.
RECURSIVE HistoryLen(_)
HistoryLen(lapses) ==
  IF DOMAIN lapses = {} THEN 0
  ELSE LET i == CHOOSE i \in DOMAIN lapses : TRUE
       IN Len(lapses[i].undoStack) + Len(lapses[i].redoStack)
            + HistoryLen([j \in DOMAIN lapses \ {i} |-> lapses[j]])

LapseSetPixel(layerIndex, x, y, color) ==
  /\ buffer' = AnvilAPI_setPixel(buffer, layerIndex, x, y, color)
  /\ thrown' = FALSE
  /\ last' = [op |-> "set_pixel", had |-> {}, layer |-> layerIndex]
  /\ UNCHANGED <<tiles, diffs, patch, stage, base, hist, written, shared, batch>>

\* AnvilAPI.registerDiff of the API bound to layer layerIndex.
LapseRegisterDiff(layerIndex, diff) ==
  /\ HistoryLen(hist) < MaxStack
  /\ hist' = [hist EXCEPT ![layerIndex] = registerDiff(@, diff)]
  /\ thrown' = FALSE
  /\ last' = [op |-> "register_diff", layer |-> layerIndex,
              had |-> IF hist[layerIndex].redoStack # << >> THEN {"redo"} ELSE {}]
  /\ UNCHANGED <<buffer, tiles, diffs, patch, stage, base, written, shared, batch>>

LapseUndo(layerIndex) ==
  LET r == undo(hist[layerIndex], buffer[layerIndex]) IN
  /\ hist' = [hist EXCEPT ![layerIndex] = r.lapse]
  /\ buffer' = [buffer EXCEPT ![layerIndex] = r.b]
  /\ patch' = r.ret
  /\ thrown' = r.err
  /\ last' = [op |-> "undo", had |-> {}, layer |-> layerIndex, before |-> buffer[layerIndex]]
  /\ UNCHANGED <<tiles, diffs, stage, base, written, shared, batch>>

LapseRedo(layerIndex) ==
  LET r == redo(hist[layerIndex], buffer[layerIndex]) IN
  /\ hist' = [hist EXCEPT ![layerIndex] = r.lapse]
  /\ buffer' = [buffer EXCEPT ![layerIndex] = r.b]
  /\ patch' = r.ret
  /\ thrown' = r.err
  /\ last' = [op |-> "redo", had |-> {}, layer |-> layerIndex]
  /\ UNCHANGED <<tiles, diffs, stage, base, written, shared, batch>>

NextLapse ==
  \/ \E layerIndex \in Layers, x \in 0..(LayerW - 1), y \in 0..(LayerH - 1), color \in Colors :
       LapseSetPixel(layerIndex, x, y, color)
  \/ \E layerIndex \in Layers, diff \in LapsePatches : LapseRegisterDiff(layerIndex, diff)
  \/ \E layerIndex \in Layers : LapseUndo(layerIndex)
  \/ \E layerIndex \in Layers : LapseRedo(layerIndex)

SpecLapse == InitLapse /\ [][NextLapse]_vars

\* ------------------------------------------------------------------ SpecUnset: a Lapse without a buffer
\* The history of the first layer, constructed without a buffer and given one
\* later by setBuffer.
InitUnset ==
  /\ buffer = [i \in Layers |-> NewBuffer(LayerW, LayerH)]
  /\ hist = [i \in Layers |-> [undoStack |-> << >>, redoStack |-> << >>, hasBuffer |-> FALSE]]
  /\ tiles = NewTiles(BufW, BufH)
  /\ diffs = NoDiffs
  /\ thrown = FALSE
  /\ patch = None
  /\ stage = "none"
  /\ base = None
  /\ written = {}
  /\ shared = {}
  /\ last = [op |-> "none", had |-> {}]
  /\ batch = NoBatch

LapseSetBuffer(layerIndex) ==
  /\ ~hist[layerIndex].hasBuffer
  /\ hist' = [hist EXCEPT ![layerIndex] = setBuffer(@)]
  /\ thrown' = FALSE
  /\ last' = [op |-> "set_buffer", had |-> {}, layer |-> layerIndex]
  /\ UNCHANGED <<buffer, tiles, diffs, patch, stage, base, written, shared, batch>>

NextUnset ==
  \/ \E x \in 0..(LayerW - 1), y \in 0..(LayerH - 1), color \in Colors : LapseSetPixel(1, x, y, color)
  \/ \E diff \in LapsePatches : LapseRegisterDiff(1, diff)
  \/ LapseUndo(1)
  \/ LapseRedo(1)
  \/ LapseSetBuffer(1)

SpecUnset == InitUnset /\ [][NextUnset]_vars

\* ------------------------------------------------------------------ SpecPure: functions of their arguments
\* A caller that builds tile controllers over buffers of several sizes and
\* asks for tile bounds, and that now and then packs a colour and unpacks it.
\* Here last is the record of the last call: its arguments and what it
\* returned.
\* The colours packed: every value of every channel, with the other three
\* channels all 0 or all U8Max.
RGBAs ==
  {[j \in 1..4 |-> IF j = k THEN v ELSE rest] : k \in 1..4, v \in 0..U8Max, rest \in {0, U8Max}}

\* new TilesController(buffer, width, height, tileSize) over a new buffer.
PureNewTiles(width, height) ==
  /\ buffer' = NewBuffer(width, height)
  /\ tiles' = NewTiles(width, height)
  /\ last' = [op |-> "new_tiles", had |-> {}]
  /\ UNCHANGED <<diffs, thrown, patch, stage, base, hist, written, shared, batch>>

PureGetTileBounds(index) ==
  /\ last' = [op |-> "get_tile_bounds", had |-> {}, index |-> index,
              ret |-> TilesController_getTileBounds(buffer, index)]
  /\ UNCHANGED <<buffer, tiles, diffs, thrown, patch, stage, base, hist, written, shared, batch>>

PurePack(rgba) ==
  /\ last.op \notin {"pack", "unpack"}
  /\ last' = [op |-> "pack", had |-> {}, rgba |-> rgba, ret |-> rgbaToPackedU32(rgba)]
  /\ UNCHANGED <<buffer, tiles, diffs, thrown, patch, stage, base, hist, written, shared, batch>>

\* Unpacks the number the last call packed.
PureUnpack ==
  /\ last.op = "pack"
  /\ last' = [op |-> "unpack", had |-> {}, rgba |-> last.rgba, packed |-> last.ret,
              ret |-> packedU32ToRgba(last.ret)]
  /\ UNCHANGED <<buffer, tiles, diffs, thrown, patch, stage, base, hist, written, shared, batch>>

NextPure ==
  \/ \E width \in 1..(BufW + 1), height \in 1..(BufH + 1) : PureNewTiles(width, height)
  \/ \E index \in AllTiles(tiles) : PureGetTileBounds(index)
  \/ \E rgba \in RGBAs : PurePack(rgba)
  \/ PureUnpack

SpecPure == Init /\ [][NextPure]_vars

\* ------------------------------------------------------------------ SpecBatch: batches of pixel writes
\* A caller of the batching facade that opens and closes batches, writes pixels
\* inside and outside them, fills rectangles outside them, and clears the dirty
\* flags between batches.  written holds the tiles written since the last clear.
BatchCur == [buffer |-> buffer, tiles |-> tiles, diffs |-> diffs, err |-> FALSE, batch |-> batch]

BatchBecomes(a) == Becomes(a) /\ batch' = a.batch

InitBatch ==
  /\ buffer = NewBuffer(BatchW, BatchH)
  /\ tiles = NewTiles(BatchW, BatchH)
  /\ diffs = NoDiffs
  /\ thrown = FALSE
  /\ patch = None
  /\ stage = "none"
  /\ base = NewBuffer(BatchW, BatchH).data
  /\ hist = None
  /\ written = {}
  /\ shared = {}
  /\ last = [op |-> "none", had |-> {}]
  /\ batch = NoBatch

BatchBeginBatch ==
  /\ batch.depth < MaxBatchDepth
  /\ BatchBecomes(beginBatch(BatchCur))
  /\ UNCHANGED <<patch, stage, base, hist, written, shared, last>>

BatchEndBatch ==
  /\ BatchBecomes(endBatch(BatchCur))
  /\ UNCHANGED <<patch, stage, base, hist, written, shared, last>>

BatchSetPixel(x, y, color) ==
  /\ Len(diffs.pixels) < MaxRzPixels
  /\ BatchBecomes(Anvil_setPixel(BatchCur, x, y, color))
  /\ written' = written \cup {pixelToTileIndex(x, y)}
  /\ UNCHANGED <<patch, stage, base, hist, shared, last>>

BatchFillRect(x, y, width, height, color) ==
  LET a == FillRect(Cur, x, y, width, height, color) IN
  /\ batch.depth = 0
  /\ Len(a.diffs.pixels) <= MaxRzPixels
  /\ Becomes(a)
  /\ written' = written \cup {pixelToTileIndex(px, py) : px \in x..(x + width - 1), py \in y..(y + height - 1)}
  /\ UNCHANGED <<patch, stage, base, hist, shared, last, batch>>

BatchDiscardDiffs ==
  /\ hasPendingChanges(diffs)
  /\ Becomes(DiscardDiffs(Cur))
  /\ UNCHANGED <<patch, stage, base, hist, written, shared, last, batch>>

BatchClearDirtyTiles ==
  /\ batch.depth = 0
  /\ tiles.dirtyFlags # {}
  /\ Becomes(ClearDirtyTiles(Cur))
  /\ written' = {}
  /\ UNCHANGED <<patch, stage, base, hist, shared, last, batch>>

NextBatch ==
  \/ BatchBeginBatch
  \/ BatchEndBatch
  \/ \E x \in 0..(BatchW - 1), y \in 0..(BatchH - 1), color \in Colors : BatchSetPixel(x, y, color)
  \/ \E x \in 0..(BatchW - 1), y \in 0..(BatchH - 1), width \in 1..BatchW, height \in 1..BatchH,
        color \in Colors :
       x + width <= BatchW /\ y + height <= BatchH /\ BatchFillRect(x, y, width, height, color)
  \/ BatchDiscardDiffs
  \/ BatchClearDirtyTiles

SpecBatch == InitBatch /\ [][NextBatch]_vars

\* ------------------------------------------------------------------ SpecFail: calls that throw
\* A caller that draws, flushes a patch, resizes or replaces the buffer, and
\* applies the patch it holds, with nothing pending, to whatever the buffer has
\* become.  last.before
\* holds the facade and the patch as a call to applyPatch or replaceBuffer
\* found them.
FailSetPixel(x, y, color) ==
  /\ patch = None
  /\ isInBounds(buffer, x, y)
  /\ Len(diffs.pixels) < MaxPixels
  /\ Becomes(SetPixel(Cur, x, y, color))
  /\ last' = [op |-> "set_pixel", had |-> {}]
  /\ UNCHANGED <<patch, stage, base, hist, written, shared, batch>>

FailFlushDiffs ==
  LET r == FlushDiffs(Cur) IN
  /\ patch = None
  /\ r.ret # None
  /\ Becomes(r.a)
  /\ patch' = r.ret
  /\ last' = [op |-> "flush", had |-> {}]
  /\ UNCHANGED <<stage, base, hist, written, shared, batch>>

FailResize(newWidth, newHeight) ==
  /\ Becomes(Resize(Cur, newWidth, newHeight))
  /\ last' = [op |-> "resize", had |-> {}]
  /\ UNCHANGED <<patch, stage, base, hist, written, shared, batch>>

FailApplyPatch(mode) ==
  LET r == ApplyPatch(Cur, patch, mode) IN
  /\ patch # None
  /\ ~hasPendingChanges(diffs)
  /\ Becomes(r.a)
  /\ patch' = r.patch
  /\ last' = [op |-> "apply_patch", had |-> {},
              before |-> [buffer |-> buffer, tiles |-> tiles, diffs |-> diffs, patch |-> patch]]
  /\ UNCHANGED <<stage, base, hist, written, shared, batch>>

FailDiscardDiffs ==
  /\ hasPendingChanges(diffs)
  /\ Becomes(DiscardDiffs(Cur))
  /\ last' = [op |-> "discard", had |-> {}]
  /\ UNCHANGED <<patch, stage, base, hist, written, shared, batch>>

FailDropPatch ==
  /\ patch # None
  /\ patch' = None
  /\ last' = [op |-> "drop", had |-> {}]
  /\ UNCHANGED <<buffer, tiles, diffs, thrown, stage, base, hist, written, shared, batch>>

FailReplaceBuffer(buf, width, height) ==
  /\ patch = None
  /\ Becomes(ReplaceBuffer(Cur, buf, width, height))
  /\ last' = [op |-> "replace_buffer", had |-> {},
              before |-> [buffer |-> buffer, tiles |-> tiles, diffs |-> diffs, patch |-> patch]]
  /\ UNCHANGED <<patch, stage, base, hist, written, shared, batch>>

NextFail ==
  \/ \E x \in Xs, y \in Ys, color \in Colors : FailSetPixel(x, y, color)
  \/ FailFlushDiffs
  \/ \E newWidth \in 1..BufW, newHeight \in 1..BufH : FailResize(newWidth, newHeight)
  \/ \E mode \in {"undo", "redo"} : FailApplyPatch(mode)
  \/ FailDiscardDiffs
  \/ FailDropPatch
  \/ \E n \in 1..(BufW * BufH), color \in Colors, width \in {None} \cup {Some(w) : w \in 1..BufW},
        height \in {None} \cup {Some(h) : h \in 1..BufH} :
       FailReplaceBuffer(Solid(n, color), width, height)

SpecFail == Init /\ [][NextFail]_vars

\* ------------------------------------------------------------------ claims on the controller
\* C3: in every state reachable by add_pixel, add_partial, add_whole,
\* add_whole_packed, flush and discard calls, a pending partial diff implies an
\* empty pending pixel list.  addPixel pushes without looking at partial.
C3_PartialImpliesNoPixels == diffs.partial # None => diffs.pixels = << >>

\* C4: in every reachable state of the controller, a pending whole diff implies
\* that no partial diff is pending and the pending pixel list is empty.
\* addPixel and addPartial do not look at whole.
C4_WholeImpliesNothingElse ==
  diffs.whole # None => diffs.partial = None /\ diffs.pixels = << >>

\* C5: when a whole diff is pending, add_partial with a correctly sized buffer
\* is ignored: afterwards the pending whole is unchanged and no partial diff is
\* pending.  addPartial stores the partial whatever is pending.
C5_PartialIgnoredUnderWhole ==
  [][(diffs.whole # None /\ \E boundBox \in PartialBoxes, color \in Colors : DiffsAddPartial(boundBox, color, 0))
       => (diffs'.whole = diffs.whole /\ diffs'.partial = None)]_vars

\* ------------------------------------------------------------------ claims on drawing
\* C7: after any sequence of in-bounds set_pixel and fill_rect calls with no
\* clear of the dirty flags in between, every tile that contains a written
\* pixel is dirty.
C7_DirtyCoversWrites == \A index \in written : isDirty(tiles, index)

\* Both tiles written: one by the bulk path of fill_rect, one pixel by pixel.
C7_Witness ==
  /\ Cardinality(written) = 2
  /\ DOMAIN diffs.tileFills # {}
  /\ Len(diffs.pixels) > 0
  /\ C7_DirtyCoversWrites

\* C8: an in-bounds set_pixel(x, y, c) leaves c at (x, y) in the buffer, the
\* tile pixel_to_tile(x, y) dirty, and the pending pixel list longer by exactly
\* one entry, appended last: {x, y, the colour (x, y) had before the call}.
C8_SetPixelUpdatesAllThree ==
  [][\A x \in Xs, y \in Ys, color \in Colors :
       DrawSetPixel(x, y, color) =>
         /\ BufGet(buffer', x, y) = color
         /\ isDirty(tiles', pixelToTileIndex(x, y))
         /\ diffs'.pixels = Append(diffs.pixels, [x |-> x, y |-> y, color |-> BufGet(buffer, x, y)])]_vars

\* A second entry was appended for a pixel that was ORANGE and is TRANSPARENT now.
C8_Witness ==
  /\ Len(diffs.pixels) = 2
  /\ diffs.pixels[2].color = ORANGE
  /\ diffs.pixels[1] # diffs.pixels[2]
  /\ BufGet(buffer, diffs.pixels[2].x, diffs.pixels[2].y) = TRANSPARENT
  /\ isDirty(tiles, pixelToTileIndex(diffs.pixels[2].x, diffs.pixels[2].y))

\* The rectangle covers every pixel of the tile that lies in the buffer, which
\* is when fillRect takes the bulk path for it.
CoversTile(index, x, y, width, height) ==
  /\ isValidTileIndex(tiles, index)
  /\ \A p \in TilePixels(buffer, index) :
       x <= p[1] /\ p[1] < x + width /\ y <= p[2] /\ p[2] < y + height

\* The patch holds what restores pixel p to the colour old: a pixel entry for p,
\* or a tile entry for p's tile, with that colour.
Restorable(P, p, old) ==
  \/ /\ P.pixels # None
     /\ \E i \in 1..Len(P.pixels) :
          P.pixels[i] = [x |-> p[1], y |-> p[2], color |-> rgbaToPackedU32(old)]
  \/ /\ P.tiles # None
     /\ \E j \in 1..Len(P.tiles[1]) :
          /\ P.tiles[1][j].tileIndex = pixelToTileIndex(p[1], p[2])
          /\ P.tiles[1][j].before = rgbaToPackedU32(old)

\* C10: when fill_rect covers a whole tile and takes the bulk path, the pre-fill
\* colour of every pixel of that tile is recorded, so that the patch flushed
\* afterwards holds what restores each of those pixels.  packTiles returns the
\* empty list for any map of tile fills, so the flushed patch holds nothing
\* for a bulk-filled tile.
C10_BulkFillKeepsPreimage ==
  [][\A x \in Xs, y \in Ys, width \in 1..BufW, height \in 1..BufH, color \in Colors :
       DrawFillRect(x, y, width, height, color) =>
         \A index \in {pixelToTileIndex(px, py) : px \in Xs, py \in Ys} :
           CoversTile(index, x, y, width, height) =>
             \A p \in TilePixels(buffer, index) :
               Restorable(packPending(diffs'), p, BufGet(buffer, p[1], p[2]))]_vars

\* ------------------------------------------------------------------ claims on undo / redo
\* C1: for every sequence S of set_pixel calls made while no diffs were
\* pending and the buffer was B0, several writes to one coordinate included,
\* apply_patch(flush_diffs(), Undo) right after S leaves the buffer equal to
\* B0.  The entries are applied first to last, so the oldest entry of a
\* coordinate is overwritten by the later ones.
C1_UndoRestoresPreimage == (stage = "undone" /\ hist.B0 # None) => buffer.data = hist.B0

\* C2: for every such S ending with buffer B1, applying the same patch object
\* as Undo and then as Redo leaves the buffer equal to B1.
C2_UndoRedoRoundTrip == (stage = "redone" /\ hist.B0 # None) => buffer.data = hist.B1

\* The colour entry i of the pixel list finds at its coordinate: what the last
\* earlier entry for that coordinate wrote, or what the buffer held.
SeenBy(entries, b, i) ==
  LET earlier == {j \in 1..(i - 1) : entries[j].x = entries[i].x /\ entries[j].y = entries[i].y}
  IN IF earlier = {} THEN BufGet(b, entries[i].x, entries[i].y)
     ELSE packedU32ToRgba(entries[CHOOSE j \in earlier : \A k \in earlier : k <= j].color)

Names(entries, x, y) == {i \in 1..Len(entries) : entries[i].x = x /\ entries[i].y = y}

\* The last entry of the pixel list that names (x, y).
LastNaming(entries, x, y) ==
  CHOOSE i \in Names(entries, x, y) : \A k \in Names(entries, x, y) : k <= i

\* C6: apply_patch handles the pixel entries in list order as swaps: entry i
\* writes its colour to (x, y) and takes the colour (x, y) held just before that
\* write, so a later entry for the same (x, y) sees what the earlier one wrote
\* and the last entry for (x, y) decides its colour.  (The one-entry patch of
\* set_pixel(x, y, ORANGE) on an empty buffer: undo leaves TRANSPARENT at
\* (x, y) and packed ORANGE in the entry.)
C6_PixelEntriesSwapInOrder ==
  [][((\E mode \in {"undo", "redo"} : PatchApply(mode))
        /\ patch.pixels # None /\ patch.whole = None /\ patch.partial = None) =>
       /\ Len(patch'.pixels) = Len(patch.pixels)
       /\ \A i \in 1..Len(patch.pixels) :
            /\ patch'.pixels[i].x = patch.pixels[i].x
            /\ patch'.pixels[i].y = patch.pixels[i].y
            /\ patch'.pixels[i].color = rgbaToPackedU32(SeenBy(patch.pixels, buffer, i))
       /\ \A x \in Xs, y \in Ys :
            BufGet(buffer', x, y) =
              IF Names(patch.pixels, x, y) # {}
              THEN packedU32ToRgba(patch.pixels[LastNaming(patch.pixels, x, y)].color)
              ELSE BufGet(buffer, x, y)]_vars

\* After undo: two entries for one coordinate, the second took the colour the
\* first had written.
C6_Witness ==
  /\ stage = "undone"
  /\ hist.P.whole = None /\ hist.P.partial = None /\ hist.P.pixels # None
  /\ Len(patch.pixels) = 2
  /\ patch.pixels[1].x = patch.pixels[2].x /\ patch.pixels[1].y = patch.pixels[2].y
  /\ patch.pixels[2].color = hist.P.pixels[1].color
  /\ patch.pixels[1].color = rgbaToPackedU32(ORANGE)
  /\ patch.pixels[2].color = rgbaToPackedU32(TRANSPARENT)

\* The colour of pixel (x, y) in the payload of a packed whole diff.
WholeAt(whole, x, y) == webpToRaw(whole.swapBufferWebp, whole.width, whole.height)[y * whole.width + x + 1]

InBox(box, x, y) == box.x <= x /\ x < box.x + box.width /\ box.y <= y /\ y < box.y + box.height

\* The colour of pixel (x, y) in the payload of a packed partial diff.
PartialAt(partial, x, y) ==
  webpToRaw(partial.swapBufferWebp, partial.boundBox.width, partial.boundBox.height)
    [(y - partial.boundBox.y) * partial.boundBox.width + (x - partial.boundBox.x) + 1]

KindCount(P) ==
  (IF P.whole # None THEN 1 ELSE 0) + (IF P.partial # None THEN 1 ELSE 0) + (IF P.pixels # None THEN 1 ELSE 0)

\* C9: within one apply_patch of a patch carrying several kinds the whole
\* payload is applied first, then the partial, then the pixel entries: a
\* coordinate named by a pixel entry ends with the (last such) entry's colour,
\* any other coordinate inside the partial box ends with the partial payload's
\* colour, and any other coordinate ends with the whole payload's colour (its
\* own colour when the patch has no whole payload).
C9_WholeThenPartialThenPixels ==
  [][((\E mode \in {"undo", "redo"} : PatchApply(mode)) /\ KindCount(patch) >= 2) =>
       \A x \in Xs, y \in Ys :
         BufGet(buffer', x, y) =
           IF patch.pixels # None /\ Names(patch.pixels, x, y) # {}
           THEN packedU32ToRgba(patch.pixels[LastNaming(patch.pixels, x, y)].color)
           ELSE IF patch.partial # None /\ InBox(patch.partial.boundBox, x, y)
           THEN PartialAt(patch.partial, x, y)
           ELSE IF patch.whole # None THEN WholeAt(patch.whole, x, y)
           ELSE BufGet(buffer, x, y)]_vars

\* After undo of a patch of all three kinds whose payloads differ: ORANGE from
\* the whole payload at 0, ORANGE from a pixel entry at 1 (inside the partial
\* box), TRANSPARENT from the partial payload at 2.
C9_Witness ==
  /\ stage = "undone"
  /\ KindCount(hist.P) = 3
  /\ WholeAt(hist.P.whole, 0, 0) = ORANGE
  /\ hist.P.partial.boundBox.x = 1
  /\ PartialAt(hist.P.partial, 1, 0) = TRANSPARENT
  /\ hist.P.pixels = <<[x |-> 1, y |-> 0, color |-> rgbaToPackedU32(ORANGE)]>>
  /\ BufGet(buffer, 0, 0) = ORANGE
  /\ BufGet(buffer, 1, 0) = ORANGE
  /\ BufGet(buffer, 2, 0) = TRANSPARENT

C12_ResizeKeepsDirtyOverlap ==
  [][\A newWidth \in ResizeWidths, newHeight \in ResizeHeights :
       TilesResize(newWidth, newHeight) =>
         \A index \in AllTiles(tiles') :
           isDirty(tiles', index) = (isValidTileIndex(tiles, index) /\ isDirty(tiles, index))]_vars

\* ------------------------------------------------------------------ claims on flood fill and resize
\* The pixels whose colour differs between the buffers b0 and b1 of one size.
Changed(b0, b1) ==
  {p \in (0..(b0.width - 1)) \X (0..(b0.height - 1)) : BufGet(b0, p[1], p[2]) # BufGet(b1, p[1], p[2])}

\* C13: after a flood_fill on the facade that changes at least one pixel,
\* every tile that contains a changed pixel is dirty.
C13_FloodFillMarksDirty ==
  [][\A startX \in GrownXs, startY \in GrownYs, color \in Inks :
       RzFloodFill(startX, startY, color) =>
         \A p \in Changed(buffer, buffer') : isDirty(tiles', pixelToTileIndex(p[1], p[2]))]_vars

\* C20: resize and resize_with_offset discard whatever was pending: right after
\* either call has_pending_changes() is false and a flush_diffs() returns no diffs.
C20_ResizeDiscardsDiffs ==
  last.op = "resize" =>
    /\ ~hasPendingChanges(diffs)
    /\ FlushDiffs(Cur).ret = None

\* Right after a resize to another size that found diffs pending.
C20_Witness ==
  /\ last.op = "resize"
  /\ last.had = {"pixels"}
  /\ buffer.width * buffer.height # BufW * BufH
  /\ ~hasPendingChanges(diffs)

C16_WholeSupersedesAll ==
  last.op \in {"add_whole", "add_whole_packed"} =>
    /\ diffs.whole # None /\ diffs.partial = None /\ diffs.pixels = << >>
    /\ LET p == previewPatch(diffs) IN
         p # None /\ p.whole # None /\ p.partial = None /\ p.pixels = None

\* add_whole arrived while pixels and a partial were pending.
C16_Witness ==
  /\ last.op = "add_whole"
  /\ last.had = {"pixels", "partial"}
  /\ Pending(diffs) = {"whole"}

\* C17: after add_pixel and then a valid add_partial, with no whole pending,
\* the pixel list is empty and the partial is set; preview_patch shows partial
\* defined and pixels undefined.
C17_PartialSupersedesPixels ==
  (last.op = "add_partial" /\ "pixels" \in last.had /\ "whole" \notin last.had) =>
    /\ diffs.pixels = << >> /\ diffs.partial # None
    /\ LET p == previewPatch(diffs) IN
         p # None /\ p.partial # None /\ p.pixels = None /\ p.whole = None

\* An accepted add_partial arrived while only pixels were pending.
C17_Witness ==
  /\ last.op = "add_partial"
  /\ last.had = {"pixels"}
  /\ ~thrown
  /\ Pending(diffs) = {"partial"}

\* C18: flush returns everything that was pending and leaves the controller
\* empty; a flush with nothing ingested since the last flush, discard or
\* construction returns "no diffs" and leaves the state empty, however often
\* it is repeated.
C18_FlushReturnsAllAndEmpties ==
  [][DiffsFlush =>
       /\ diffs' = NoDiffs
       /\ ~hasPendingChanges(diffs')
       /\ IF Pending(diffs) = {} THEN patch' = None
          ELSE /\ patch' # None
               /\ patch'.whole = diffs.whole
               /\ patch'.partial = diffs.partial
               /\ Len(patch'.pixels) = Len(diffs.pixels)
               /\ \A i \in 1..Len(diffs.pixels) :
                    /\ patch'.pixels[i].x = diffs.pixels[i].x
                    /\ patch'.pixels[i].y = diffs.pixels[i].y
                    /\ patch'.pixels[i].color = rgbaToPackedU32(diffs.pixels[i].color)
       /\ flush(diffs').ret = None
       /\ flush(diffs').d = NoDiffs]_vars

\* A flush that found all three kinds pending.
C18_Witness ==
  /\ last.op = "flush"
  /\ last.had = {"pixels", "partial", "whole"}
  /\ patch # None
  /\ diffs = NoDiffs

\* C19: preview_patch is read-only: whatever the number of calls, pixels,
\* partial and whole stay as they were, and a flush right after a preview
\* returns the same content.
C19_PreviewReadsOnly ==
  [][DiffsPreview =>
       /\ diffs' = diffs
       /\ previewPatch(diffs') = patch'
       /\ flush(diffs').ret = patch']_vars

\* A preview of all three kinds, still pending after it.
C19_Witness ==
  /\ last.op = "preview"
  /\ last.had = {"pixels", "partial", "whole"}
  /\ patch # None
  /\ Pending(diffs) = last.had

\* C14: a patch returned by flush_diffs is a snapshot: no later set_pixel,
\* add_partial, add_whole, preview, flush or discard changes its pixel entries
\* or its payloads.
C14_FlushedPatchIsSnapshot ==
  stage = "flushed" => patch = hist

\* A kept patch of all three kinds while three other diffs are pending again.
C14_Witness ==
  /\ stage = "flushed"
  /\ Pending(diffs) = {"pixels", "partial", "whole"}
  /\ patch.pixels # None /\ patch.partial # None /\ patch.whole # None
  /\ diffs.whole # patch.whole
  /\ diffs.partial # patch.partial
  /\ patch = hist

\* ------------------------------------------------------------------ claims on rejected calls
\* C22: add_partial with a swap buffer whose length differs from
\* boundBox.width * boundBox.height * 4 fails and ingests nothing: pending
\* pixels, partial and whole are exactly as before the call.
C22_BadPartialIngestsNothing ==
  [][\A boundBox \in PartialBoxes, color \in Colors, extra \in {-1, 1} :
       DiffsAddPartial(boundBox, color, extra) =>
         /\ thrown'
         /\ diffs'.pixels = diffs.pixels
         /\ diffs'.partial = diffs.partial
         /\ diffs'.whole = diffs.whole]_vars

\* A mis-sized add_partial was refused while all three kinds were pending.
C22_Witness ==
  /\ last.op = "add_partial_bad"
  /\ thrown
  /\ last.had = {"pixels", "partial", "whole"}
  /\ Pending(diffs) = last.had

\* C21: set_pixel and get_pixel on the facade fail for every coordinate with
\* x < 0, y < 0, x >= width or y >= height, and the failed call changes
\* nothing: buffer bytes, tile flags and pending diffs are as before.
C21_OutOfBoundsFailsCleanly ==
  [][(last'.op \in {"set_pixel", "get_pixel"} /\ last'.outside) =>
       /\ thrown'
       /\ buffer' = buffer
       /\ tiles' = tiles
       /\ diffs' = diffs]_vars

\* A set_pixel outside the buffer failed while a diff was pending and a tile dirty.
C21_Witness ==
  /\ last.op = "set_pixel"
  /\ last.outside
  /\ thrown
  /\ Len(diffs.pixels) > 0
  /\ tiles.dirtyFlags # {}

\* C23: fill_rect over a rectangle entirely outside the buffer is a silent
\* no-op: no error, and buffer bytes, tile flags and pending diffs unchanged.
C23_OutsideFillIsNoOp ==
  [][(last'.op = "fill_rect" /\ last'.outside) =>
       /\ ~thrown'
       /\ buffer' = buffer
       /\ tiles' = tiles
       /\ diffs' = diffs]_vars

\* ------------------------------------------------------------------ claims on marking tiles
\* The tile index has pixels in common with the box.
TileMeetsBox(index, box) ==
  /\ index.col * TileSz < box.x + box.width /\ box.x < (index.col + 1) * TileSz
  /\ index.row * TileSz < box.y + box.height /\ box.y < (index.row + 1) * TileSz

C26_DirtyIsExactlyWritten ==
  {index \in AllTiles(tiles) : isDirty(tiles, index)} = written

\* Two pixels were written into the first tile and the second tile is clean.
C26_Witness ==
  /\ Len(diffs.pixels) = 2
  /\ DOMAIN diffs.tileFills = {}
  /\ written = {pixelToTileIndex(0, 0)}
  /\ ~isDirty(tiles, pixelToTileIndex(BufW - 1, 0))

\* C25: after apply_patch of a non-null patch, every tile that contains a pixel
\* the call changed is dirty.
C25_ApplyPatchMarksChangedTiles ==
  [][(stage' \in {"undone", "redone"} /\ stage' # stage /\ patch # None)
       => \A x \in Xs, y \in Ys :
            BufGet(buffer', x, y) # BufGet(buffer, x, y)
              => isDirty(tiles', pixelToTileIndex(x, y))]_vars

\* A flushed partial diff was undone: the buffer differs from the one at the
\* flush in the last tile, which is dirty, and no pixel entry was in the patch.
C25_Witness ==
  /\ stage = "undone"
  /\ hist.P # None /\ hist.P.partial # None /\ hist.P.pixels = None
  /\ BufGet(buffer, BufW - 1, 0) # BufGet([buffer EXCEPT !.data = hist.B1], BufW - 1, 0)
  /\ isDirty(tiles, pixelToTileIndex(BufW - 1, 0))

\* ------------------------------------------------------------------ claims on layers and their histories
\* C27: Lapse undo/redo replays a registered patch: an undo of a patch that
\* lists distinct coordinates sets each listed pixel to its recorded colour,
\* and a redo that follows sets each back to the colour it had just before the
\* undo.
C27_LapseReplaysPatch ==
  [][/\ (last'.op = "undo" /\ patch' # None)
          => LET P == hist[last'.layer].undoStack[Len(hist[last'.layer].undoStack)]
             IN \A k \in DOMAIN P.pixels :
                  rgbaToPackedU32(BufGet(buffer'[last'.layer], P.pixels[k].x, P.pixels[k].y))
                    = P.pixels[k].color
     /\ (last.op = "undo" /\ patch # None /\ last'.op = "redo" /\ last'.layer = last.layer)
          => \A k \in DOMAIN patch.pixels :
               BufGet(buffer'[last'.layer], patch.pixels[k].x, patch.pixels[k].y)
                 = BufGet(last.before, patch.pixels[k].x, patch.pixels[k].y)]_vars

\* A redo has just put two pixels of layer 1 back to different colours than
\* the undo before it had set.
C27_Witness ==
  /\ last.op = "redo" /\ last.layer = 1
  /\ patch # None /\ Len(patch.pixels) = 2
  /\ \A k \in DOMAIN patch.pixels :
       rgbaToPackedU32(BufGet(buffer[1], patch.pixels[k].x, patch.pixels[k].y)) # patch.pixels[k].color
  /\ BufGet(buffer[1], 0, 0) # BufGet(buffer[1], 1, 0)

C30_PackUnpackRoundTrip ==
  last.op = "unpack" => last.ret = last.rgba

\* A colour with alpha U8Max and red below it came back from the round trip.
C30_Witness ==
  /\ last.op = "unpack"
  /\ last.rgba[4] = U8Max /\ last.rgba[1] = 0
  /\ last.packed < 0
  /\ last.ret = last.rgba

\* C31: the packed colour is a u32: for every RGBA tuple of u8 values,
\* rgbaToPackedU32 returns the unsigned number A*2^24 + R*2^16 + G*2^8 + B, a
\* value in 0..2^32-1, also when A >= 128.  The number is stated by its four
\* base-256 digits.
C31_PackedIsUnsigned ==
  last.op = "pack"
    => /\ last.ret >= 0
       /\ last.ret \div 16777216 = last.rgba[4]
       /\ (last.ret \div 65536) % 256 = last.rgba[1]
       /\ (last.ret \div 256) % 256 = last.rgba[2]
       /\ last.ret % 256 = last.rgba[3]

\* ------------------------------------------------------------------ claims on recording a resize
\* C32: a resize can be recorded as its own patch by snapshotting first: after
\* add_current_whole_diff followed by resize_with_offset, flush_diffs returns a
\* patch whose whole payload is the pre-resize image.  Stated on the state
\* right after a resize that found a whole diff pending: the flush that would
\* follow returns a patch with a whole payload of the size before the resize.
C32_SnapshotSurvivesResize ==
  (last.op = "resize" /\ "whole" \in last.had)
    => /\ FlushDiffs(Cur).ret # None
       /\ FlushDiffs(Cur).ret.whole # None

\* ------------------------------------------------------------------ claims on applying patches
\* C33: apply_patch records nothing: if no diffs are pending before
\* apply_patch(P, mode), then has_pending_changes() is false after it, for
\* patches of every kind (pixels, partial, whole).
C33_ApplyPatchRecordsNothing ==
  [][(stage' \in {"undone", "redone"} /\ stage' # stage /\ ~hasPendingChanges(diffs))
       => ~hasPendingChanges(diffs')]_vars

\* ------------------------------------------------------------------ claims on batch mode
\* C34: after beginBatch, any number of in-bounds set_pixel calls and the endBatch
\* that returns the depth to 0, every tile containing a written pixel is dirty.
\* Stated for every state outside a batch: each tile written since the dirty
\* flags were last cleared is dirty.
C34_BatchWritesAreDirty ==
  batch.depth = 0 => \A index \in written : isDirty(tiles, index)

\* C35: after any sequence of fill, set_pixel and fill_rect calls, a tile flagged
\* uniform has every in-bounds pixel equal to the recorded uniform colour.
\* Stated for the states outside a batch.
C35_UniformFlagIsTrue ==
  batch.depth = 0
    => \A index \in AllTiles(tiles) :
         isUniform(tiles, index)
           => \A p \in TilePixels(buffer, index) :
                BufGet(buffer, p[1], p[2]) = getUniformColor(tiles, index)


\* ------------------------------------------------------------------ claims on calls that throw
\* C36: apply_patch is all-or-nothing: when it throws because a pixel entry lies
\* outside the current buffer, the buffer's bytes, the pending diffs and the
\* patch's entries are as they were before the call.
C36_ApplyPatchIsAtomic ==
  (last.op = "apply_patch" /\ thrown)
    => /\ buffer = last.before.buffer
       /\ diffs = last.before.diffs
       /\ patch = last.before.patch

\* C37: a replaceBuffer(buffer, width, height) that throws because the length of
\* buffer is not width * height * 4 leaves width, height, pixels, tile flags and
\* pending diffs as they were before the call.
C37_FailedReplaceBufferChangesNothing ==
  (last.op = "replace_buffer" /\ thrown)
    => /\ buffer = last.before.buffer
       /\ tiles = last.before.tiles
       /\ diffs = last.before.diffs

\* ------------------------------------------------------------------ claims on the history
\* C38: an undo() or redo() of a Lapse that throws because no buffer is set
\* leaves the undo stack and the redo stack as they were before the call.
C38_FailedUndoKeepsStacks ==
  [][(thrown' /\ last'.op \in {"undo", "redo"}) => hist' = hist]_vars

\* C39: after a registerDiff the redo history is gone: canRedo() is false, and a
\* redo() returns null and changes neither the buffer nor the undo stack.
C39_RegisterDiffClearsRedo ==
  last.op = "register_diff"
    => /\ hist[last.layer].redoStack = << >>
       /\ redo(hist[last.layer], buffer[last.layer])
            = [lapse |-> hist[last.layer], b |-> buffer[last.layer], ret |-> None, err |-> FALSE]

\* A registerDiff has just followed an undo whose patch was still on the redo stack.
C39_Witness ==
  /\ last.op = "register_diff"
  /\ "redo" \in last.had
  /\ Len(hist[last.layer].undoStack) = 1

\* ------------------------------------------------------------------ claims on the dirty bitset
\* C40: in every state reachable by set_dirty, mark_dirty_by_pixel,
\* set_all_dirty, clear_all_dirty and resize, every bit of the dirty bitset at a
\* linear position >= rows * cols is zero.
C40_TrailingBitsAreZero ==
  /\ tiles.totalTiles = tiles.rows * tiles.cols
  /\ \A p \in tiles.dirtyFlags : p >= 0 /\ p < tiles.rows * tiles.cols

\* Every tile of a grid that leaves bits of the last word unused is dirty.
C40_Witness ==
  /\ tiles.totalTiles > 1
  /\ tiles.totalTiles % WordBits > 0
  /\ tiles.dirtyFlags = 0..(tiles.totalTiles - 1)

====
